---- MODULE Spec2Model ----
(***************************************************************************)
(* A model of the eval-rs core: the s-expression compiler (compiler.rs),   *)
(* the bytecode virtual machine and its drivers (vm.rs) and the bump       *)
(* allocating Arena (memory.rs).                                           *)
(*                                                                         *)
(* Instruction addresses, register numbers and literal ids are 0-based as  *)
(* in the source; TLA+ sequences are 1-based, so element i of a source     *)
(* array is element i + 1 of the sequence that models it.                  *)
(***************************************************************************)
EXTENDS Integers, Sequences, FiniteSets, TLC

VARIABLES
    prog,       \* index of the input drawn at start (never changes)
    start,      \* the stack and globals the caller provided (never changes)
    heap,       \* the heap objects: Pairs and Numbers, by address
    ast,        \* the root of the AST handed to compile
    phase,      \* "source" | "ready" | "failed"; "none" when no input is loaded
    cerr,       \* the error compile returned, "" when none
    code,       \* the ByteCode object: [code, literals]
    stack,      \* the register stack (List)
    globals,    \* the global bindings (Dict): symbol name -> value
    ip,         \* InstructionStream: index of the next instruction to fetch
    driver,     \* "host" (calls vm_eval_stream itself) | "quick" (quick_vm_eval)
    active,     \* a vm_eval_stream call of the host is in progress
    max_instr,  \* the max_instr of the current or last vm_eval_stream call
    executed,   \* iterations the current or last vm_eval_stream call has run
    status,     \* what the last vm_eval_stream call returned
    retval,     \* the value carried by Return
    err,        \* the RuntimeError carried by Err
    qstatus,    \* what quick_vm_eval returned: "None" | "Ok" | "Err"
    obs,        \* history: per instruction, the operands seen when it last ran
    bump,       \* Arena: the bump offset
    buffer,     \* Arena: per byte, the object byte written there (0: never written)
    allocs,     \* Arena: history of successful allocations <<offset, size>>
    panicked,   \* Arena: the thread panicked ("" when not)
    last,       \* Arena: outcome of the last alloc: [result, before, size]
    from_str,   \* Text: the &str handed to new_from_str, as its chars
    room,       \* Text: bytes the heap can still give to an array
    text,       \* Text: the Text object made, NoText before
    made,       \* Text: the constructor called: "none" | "new_empty" | "new_from_str"
    tresult,    \* Text: what the constructor returned
    got         \* Text: what as_str returned, Unread before

vmvars == <<prog, start, heap, ast, phase, cerr, code, stack, globals, ip, driver,
            active, max_instr, executed, status, retval, err, qstatus, obs>>
arenavars == <<bump, buffer, allocs, panicked, last>>
textvars == <<from_str, room, text, made, tresult, got>>
vars == <<vmvars, arenavars, textvars>>

-----------------------------------------------------------------------------
(* Bounds of the model *)

\* largest max_instr the host passes to vm_eval_stream
MaxBudget == 3
\* length of the register stack the caller provides
NumRegs == 7
\* capacity of the Arena, in bytes
ArenaSize == 8
\* ArraySize::max_value(), reduced
MaxArraySize == 6
\* the longest &str, in chars
MaxChars == 2
\* largest object size handed to Arena::alloc
MaxObjSize == 3

(* Program constants *)

\* the quantum quick_vm_eval passes to vm_eval_stream
Quantum == 1024

-----------------------------------------------------------------------------
(* Tagged values.  A Symbol is interned, so its identity is its name; a    *)
(* Pair or a Number is a heap object and its identity is its address.      *)

NilV == [tag |-> "nil", name |-> "", addr |-> 0]
Sym(s) == [tag |-> "sym", name |-> s, addr |-> 0]
PairV(a) == [tag |-> "pair", name |-> "", addr |-> a]
NumV(a) == [tag |-> "num", name |-> "", addr |-> a]

\* mem.nil()
mem_nil == NilV
\* mem.lookup_sym(name): interning, the same name gives the same Symbol
lookup_sym(s) == Sym(s)

PairCell(a, d) == [kind |-> "pair", first |-> a, second |-> d, n |-> 0]
NumCell(k) == [kind |-> "num", first |-> NilV, second |-> NilV, n |-> k]

\* mem.alloc_tagged(object): the object goes to the next free address
alloc_tagged(h, cell) ==
    [heap |-> Append(h, cell),
     val |-> IF cell.kind = "pair" THEN PairV(Len(h) + 1) ELSE NumV(Len(h) + 1)]

-----------------------------------------------------------------------------
(* The reader's output.  A term is the text of an s-expression; Load lays  *)
(* it out in the heap the way the reader does, one fresh Pair per cons     *)
(* cell and one fresh Number per numeral.                                  *)

TSym(s) == [t |-> "sym", name |-> s]
TNum(k) == [t |-> "num", n |-> k]
TNil == [t |-> "nil"]
TPair(a, d) == [t |-> "pair", first |-> a, second |-> d]
RECURSIVE TList(_)
TList(items) ==
    IF items = <<>> THEN TNil ELSE TPair(Head(items), TList(Tail(items)))
\* (name arg1 arg2 ...)
App(name, args) == TPair(TSym(name), TList(args))
Quote(x) == App("quote", <<x>>)

\* F applied to the value of v, which is computed once, before F is entered
Bind(v, F(_)) == CHOOSE y \in { F(x) : x \in {v} } : TRUE

RECURSIVE Load(_, _)
Load(h, term) ==
    CASE term.t = "nil" -> [heap |-> h, val |-> NilV]
      [] term.t = "sym" -> [heap |-> h, val |-> Sym(term.name)]
      [] term.t = "num" -> alloc_tagged(h, NumCell(term.n))
      [] OTHER ->
            Bind(Load(h, term.first), LAMBDA a :
            Bind(Load(a.heap, term.second), LAMBDA d :
            alloc_tagged(d.heap, PairCell(a.val, d.val))))

-----------------------------------------------------------------------------
(* pair.rs: taking one or two values off a Pair list *)

get_one_from_pair_list(h, ptr) ==
    IF ptr.tag = "pair"
    THEN IF h[ptr.addr].second.tag = "nil"
         THEN [ok |-> TRUE, val |-> h[ptr.addr].first, err |-> ""]
         ELSE [ok |-> FALSE, val |-> NilV, err |-> "Pair list has more than one value"]
    ELSE [ok |-> FALSE, val |-> NilV, err |-> "Expected a Pair list"]

get_two_from_pair_list(h, ptr) ==
    IF ptr.tag = "pair" /\ h[ptr.addr].second.tag = "pair"
    THEN LET rest == h[h[ptr.addr].second.addr]
         IN  IF rest.second.tag = "nil"
             THEN [ok |-> TRUE, first |-> h[ptr.addr].first, second |-> rest.first,
                   err |-> ""]
             ELSE [ok |-> FALSE, first |-> NilV, second |-> NilV,
                   err |-> "Pair list has more than two values"]
    ELSE [ok |-> FALSE, first |-> NilV, second |-> NilV,
          err |-> "Expected a Pair list of two values"]

-----------------------------------------------------------------------------
(* bytecode.rs: the ByteCode object and the instruction fields *)

Instr(op, acc, reg1, reg2, lit, offset) ==
    [op |-> op, acc |-> acc, reg1 |-> reg1, reg2 |-> reg2, lit |-> lit,
     offset |-> offset]

ByteCode_new == [code |-> <<>>, literals |-> <<>>]

bc_push(b, ins) == [b EXCEPT !.code = Append(@, ins)]
bc_push_op0(b, op) == bc_push(b, Instr(op, 0, 0, 0, 0, 0))
\* the one-register form: RETURN is pushed through it and read back through
\* get_reg_acc (compiler.rs:28, vm.rs:36)
bc_push_op1(b, op, reg) == bc_push(b, Instr(op, reg, 0, 0, 0, 0))
bc_push_op2(b, op, acc, reg1) == bc_push(b, Instr(op, acc, reg1, 0, 0, 0))
bc_push_op3(b, op, acc, reg1, reg2) == bc_push(b, Instr(op, acc, reg1, reg2, 0, 0))
bc_push_loadlit(b, acc, lit_id) == bc_push(b, Instr("LOADLIT", acc, 0, 0, lit_id, 0))
bc_push_jump(b) == bc_push(b, Instr("JMP", 0, 0, 0, 0, 0))
\* the tested register of JMPT/JMPNT is read back through get_reg1 (vm.rs:130,141)
bc_push_cond_jump(b, op, reg) == bc_push(b, Instr(op, 0, reg, 0, 0, 0))
bc_push_lit(b, literal) == [b EXCEPT !.literals = Append(@, literal)]
\* the id push_lit returns for the literal it is about to push
bc_next_lit_id(b) == Len(b.literals)
\* index of the next instruction to be pushed
next_instruction(b) == Len(b.code)
\* index of the instruction pushed last
last_instruction(b) == Len(b.code) - 1
write_jump_offset(b, address, offset) ==
    [b EXCEPT !.code[address + 1].offset = offset]

-----------------------------------------------------------------------------
(* compiler.rs *)

Compiler_new == [bytecode |-> ByteCode_new, next_reg |-> 0]

Ok(c, reg) == [ok |-> TRUE, c |-> c, reg |-> reg, err |-> ""]
Fail(c, msg) == [ok |-> FALSE, c |-> c, reg |-> 0, err |-> msg]

acquire_reg(c) == [c |-> [c EXCEPT !.next_reg = @ + 1], reg |-> c.next_reg]
reset_reg(c, reg) == [c EXCEPT !.next_reg = reg]

push_load_literal(c, literal) ==
    LET a == acquire_reg(c)
        lit_id == bc_next_lit_id(a.c.bytecode)
        b1 == bc_push_lit(a.c.bytecode, literal)
        b2 == bc_push_loadlit(b1, a.reg, lit_id)
    IN  Ok([a.c EXCEPT !.bytecode = b2], a.reg)

push_op1(c, op) ==
    LET a == acquire_reg(c)
    IN  Ok([a.c EXCEPT !.bytecode = bc_push_op1(@, op, a.reg)], a.reg)

RECURSIVE compile_eval(_, _, _)
RECURSIVE compile_apply(_, _, _, _)
RECURSIVE compile_apply_cond(_, _, _)
RECURSIVE cond_clauses(_, _, _, _, _, _)
RECURSIVE push_op2(_, _, _, _)
RECURSIVE push_op3(_, _, _, _)

\* mutant: the operand of quote is compiled as an expression
compile_quote_evaluated(h, c, params) ==
    LET g == get_one_from_pair_list(h, params)
    IN  IF g.ok THEN compile_eval(h, c, g.val) ELSE Fail(c, g.err)
\* "quote" => push_load_literal(get_one_from_pair_list(params)?) (compiler.rs:61)
compile_quote(h, c, params) ==
    LET g == get_one_from_pair_list(h, params)
    IN  IF g.ok THEN push_load_literal(c, g.val) ELSE Fail(c, g.err)

\* mutant: the symbol nil is loaded as the symbol
compile_eval_nil_symbol(h, c, ast_node) ==
    CASE ast_node.tag = "pair" ->
            compile_apply(h, c, h[ast_node.addr].first, h[ast_node.addr].second)
      [] OTHER -> push_load_literal(c, ast_node)

compile_eval(h, c, ast_node) ==
    CASE ast_node.tag = "pair" ->
            compile_apply(h, c, h[ast_node.addr].first, h[ast_node.addr].second)
      [] ast_node.tag = "sym" ->
            push_load_literal(c, IF ast_node.name = "nil" THEN mem_nil ELSE ast_node)
      [] OTHER -> push_load_literal(c, ast_node)

\* mutant: the two errors of the operator position exchanged
compile_apply_swapped(h, c, function, params) ==
    IF function.tag = "sym"
    THEN CASE function.name = "quote" -> compile_quote(h, c, params)
           [] function.name = "atom" -> push_op2(h, c, "ATOM", params)
           [] function.name = "car" -> push_op2(h, c, "CAR", params)
           [] function.name = "cdr" -> push_op2(h, c, "CDR", params)
           [] function.name = "cons" -> push_op3(h, c, "CONS", params)
           [] function.name = "cond" -> compile_apply_cond(h, c, params)
           [] function.name = "eq" -> push_op3(h, c, "EQ", params)
           [] OTHER -> Fail(c, "Non symbol in function-call position")
    ELSE Fail(c, "Symbol is not bound to a function")

compile_apply(h, c, function, params) ==
    IF function.tag = "sym"
    THEN CASE function.name = "quote" -> compile_quote(h, c, params)
           [] function.name = "atom" -> push_op2(h, c, "ATOM", params)
           [] function.name = "car" -> push_op2(h, c, "CAR", params)
           [] function.name = "cdr" -> push_op2(h, c, "CDR", params)
           [] function.name = "cons" -> push_op3(h, c, "CONS", params)
           [] function.name = "cond" -> compile_apply_cond(h, c, params)
           [] function.name = "eq" -> push_op3(h, c, "EQ", params)
           [] OTHER -> Fail(c, "Symbol is not bound to a function")
    ELSE Fail(c, "Non symbol in function-call position")

\* mutant: the offset is taken one too long
patch_to_next_long(c, address) ==
    [c EXCEPT !.bytecode =
        write_jump_offset(@, address, next_instruction(@) - address)]

\* patch the jump at `address` to land on the next instruction to be pushed
patch_to_next(c, address) ==
    [c EXCEPT !.bytecode =
        write_jump_offset(@, address, next_instruction(@) - address - 1)]

\* mutant: only the first end jump is patched
patch_all_first(c, addresses) ==
    IF addresses = <<>> THEN c ELSE patch_to_next(c, Head(addresses))

RECURSIVE patch_all(_, _)
patch_all(c, addresses) ==
    IF addresses = <<>> THEN c
    ELSE patch_all(patch_to_next(c, Head(addresses)), Tail(addresses))

\* after the clauses: the default NIL and the end jumps (compiler.rs:129-143)
cond_close(c, result, end_jumps, last_cond_jump) ==
    LET c1 == IF last_cond_jump # <<>>
              THEN patch_to_next(push_op1(reset_reg(c, result), "LOADNIL").c,
                                 last_cond_jump[1])
              ELSE c
    IN  Ok(patch_all(c1, end_jumps), result)

\* mutant: a condition with no expr after it ends the clause list
cond_clauses_lenient(h, c, head, result, end_jumps, last_cond_jump) ==
    IF head.tag # "pair" THEN cond_close(c, result, end_jumps, last_cond_jump)
    ELSE
    LET cond == h[head.addr].first
        head1 == h[head.addr].second
    IN  IF head1.tag # "pair" THEN cond_close(c, result, end_jumps, last_cond_jump)
        ELSE
        LET expr == h[head1.addr].first
            head2 == h[head1.addr].second
            c1 == IF last_cond_jump # <<>>
                  THEN patch_to_next(c, last_cond_jump[1]) ELSE c
            r1 == compile_eval(h, reset_reg(c1, result), cond)
        IN  IF ~r1.ok THEN r1
            ELSE
            LET c3 == [r1.c EXCEPT !.bytecode = bc_push_cond_jump(@, "JMPNT", r1.reg)]
                jmpnt == last_instruction(c3.bytecode)
                r2 == compile_eval(h, reset_reg(c3, result), expr)
            IN  IF ~r2.ok THEN r2
                ELSE
                LET c5 == [r2.c EXCEPT !.bytecode = bc_push_jump(@)]
                IN  cond_clauses(h, c5, head2, result,
                                 Append(end_jumps, last_instruction(c5.bytecode)),
                                 <<jmpnt>>)

\* the while loop over the clause list (compiler.rs:94-127); last_cond_jump is
\* <<>> for None and <<address>> for Some(address)
cond_clauses(h, c, head, result, end_jumps, last_cond_jump) ==
    IF head.tag # "pair" THEN cond_close(c, result, end_jumps, last_cond_jump)
    ELSE
    LET cond == h[head.addr].first
        head1 == h[head.addr].second
    IN  IF head1.tag # "pair" THEN Fail(c, "Unexpected end of cond list")
        ELSE
        LET expr == h[head1.addr].first
            head2 == h[head1.addr].second
            c1 == IF last_cond_jump # <<>>
                  THEN patch_to_next(c, last_cond_jump[1]) ELSE c
            r1 == compile_eval(h, reset_reg(c1, result), cond)
        IN  IF ~r1.ok THEN r1
            ELSE
            LET c3 == [r1.c EXCEPT !.bytecode = bc_push_cond_jump(@, "JMPNT", r1.reg)]
                jmpnt == last_instruction(c3.bytecode)
                r2 == compile_eval(h, reset_reg(c3, result), expr)
            IN  IF ~r2.ok THEN r2
                ELSE
                LET c5 == [r2.c EXCEPT !.bytecode = bc_push_jump(@)]
                IN  cond_clauses(h, c5, head2, result,
                                 Append(end_jumps, last_instruction(c5.bytecode)),
                                 <<jmpnt>>)

compile_apply_cond(h, c, params) ==
    cond_clauses(h, c, params, c.next_reg, <<>>, <<>>)

push_op2(h, c, op, params) ==
    LET a == acquire_reg(c)
        g == get_one_from_pair_list(h, params)
    IN  IF ~g.ok THEN Fail(c, g.err)
        ELSE
        LET r1 == compile_eval(h, a.c, g.val)
        IN  IF ~r1.ok THEN r1
            ELSE Ok([r1.c EXCEPT !.bytecode = bc_push_op2(@, op, a.reg, r1.reg)], a.reg)

push_op3(h, c, op, params) ==
    LET a == acquire_reg(c)
        g == get_two_from_pair_list(h, params)
    IN  IF ~g.ok THEN Fail(c, g.err)
        ELSE
        LET r1 == compile_eval(h, a.c, g.first)
        IN  IF ~r1.ok THEN r1
            ELSE
            LET r2 == compile_eval(h, r1.c, g.second)
            IN  IF ~r2.ok THEN r2
                ELSE Ok([r2.c EXCEPT !.bytecode =
                            bc_push_op3(@, op, a.reg, r1.reg, r2.reg)], a.reg)

\* mutant: RETURN of the register acquired last
compile_return_last(h, node) ==
    LET r == compile_eval(h, Compiler_new, node)
    IN  IF ~r.ok THEN [ok |-> FALSE, bytecode |-> ByteCode_new, err |-> r.err]
        ELSE [ok |-> TRUE,
              bytecode |-> bc_push_op1(r.c.bytecode, "RETURN", r.c.next_reg - 1),
              err |-> ""]

\* Compiler::compile and the free function compile: the bytecode, or the error
compile(h, node) ==
    LET r == compile_eval(h, Compiler_new, node)
    IN  IF ~r.ok THEN [ok |-> FALSE, bytecode |-> ByteCode_new, err |-> r.err]
        ELSE [ok |-> TRUE, bytecode |-> bc_push_op1(r.c.bytecode, "RETURN", r.reg),
              err |-> ""]

-----------------------------------------------------------------------------
(* vm.rs: one instruction *)

\* InstructionStream: the instruction at `at`, and whether there is one
has_instr(bc, at) == at >= 0 /\ at < Len(bc.code)
instr_at(bc, at) == bc.code[at + 1]
get_literal(bc, ins) == bc.literals[ins.lit + 1]
\* InstructionStream::jump, called after get_next_opcode has advanced the stream
jump(next, ins) == next + ins.offset

\* List::get / List::set on the register stack
stack_get(st, reg) == st[reg + 1]
stack_set(st, reg, v) == [st EXCEPT ![reg + 1] = v]

\* Dict::lookup / Dict::assoc, keyed by Symbol
dict_has(g, key) == key.name \in DOMAIN g
dict_lookup(g, key) == g[key.name]
dict_assoc(g, key, v) ==
    [n \in DOMAIN g \cup {key.name} |-> IF n = key.name THEN v ELSE g[n]]

\* CONS: the new Pair; CAR / CDR: the slot read (vm.rs:103-105, 78, 90)
new_pair(reg1_val, reg2_val) == PairCell(reg1_val, reg2_val)
\* mutant: CAR reads the second slot
car_of_second(h, p) == h[p.addr].second
car_of(h, p) == h[p.addr].first
cdr_of(h, p) == h[p.addr].second

\* mutant: a symbol keeps its first binding
store_global_once(g, sym, v) == IF dict_has(g, sym) THEN g ELSE dict_assoc(g, sym, v)
\* STOREGLOBAL: globals.assoc(assign_reg_val, reg1_val) (vm.rs:177-180)
store_global(g, sym, v) == dict_assoc(g, sym, v)

\* mutant: Nil counts as an atom
atom_result_of_nil(v) == IF v.tag = "pair" THEN mem_nil ELSE lookup_sym("true")
\* the value each test opcode leaves in acc, and when a conditional jump is taken
nil_result(v) == IF v.tag = "nil" THEN lookup_sym("true") ELSE mem_nil
atom_result(v) == IF v.tag \in {"nil", "pair"} THEN mem_nil ELSE lookup_sym("true")
\* mutant: EQ compares the kind and the name and not the address
eq_result_by_kind(a, b) ==
    IF a.tag = b.tag /\ a.name = b.name THEN lookup_sym("true") ELSE mem_nil
eq_result(a, b) == IF a = b THEN lookup_sym("true") ELSE mem_nil
jmpt_taken(v) == v = lookup_sym("true")
\* mutant: JMPNT jumps when the value is the true-symbol
jmpnt_taken_on_true(v) == v = lookup_sym("true")
jmpnt_taken(v) == v # lookup_sym("true")

Res(st, val, e, h, s, g, next) ==
    [status |-> st, val |-> val, err |-> e, heap |-> h, stack |-> s,
     globals |-> g, ip |-> next]
Pending(h, s, g, next) == Res("Pending", NilV, "", h, s, g, next)
\* mutant: an error clears the registers
EvalErr_clears(msg, h, s, g, next) ==
    Res("Err", NilV, msg, h, [i \in DOMAIN s |-> NilV], g, next)
EvalErr(msg, h, s, g, next) == Res("Err", NilV, msg, h, s, g, next)

\* eval_next_instr: fetch one opcode, execute it (vm.rs:24-187)
eval_next_instr(h, s, g, bc, at) ==
    IF ~has_instr(bc, at) THEN EvalErr("No more instructions", h, s, g, at)
    ELSE
    LET ins == instr_at(bc, at)
        next == at + 1
        opcode == ins.op
        acc_val == stack_get(s, ins.acc)
        reg1_val == stack_get(s, ins.reg1)
        reg2_val == stack_get(s, ins.reg2)
    IN  CASE opcode = "HALT" -> Res("Halt", NilV, "", h, s, g, next)
          [] opcode = "RETURN" -> Res("Return", acc_val, "", h, s, g, next)
          [] opcode = "LOADLIT" ->
                Pending(h, stack_set(s, ins.acc, get_literal(bc, ins)), g, next)
          [] opcode = "NIL" ->
                Pending(h, stack_set(s, ins.acc, nil_result(reg1_val)), g, next)
          [] opcode = "ATOM" ->
                Pending(h, stack_set(s, ins.acc, atom_result(reg1_val)), g, next)
          [] opcode = "CAR" ->
                IF reg1_val.tag = "pair"
                THEN Pending(h, stack_set(s, ins.acc, car_of(h, reg1_val)), g, next)
                ELSE EvalErr("Parameter to CAR is not a list", h, s, g, next)
          [] opcode = "CDR" ->
                IF reg1_val.tag = "pair"
                THEN Pending(h, stack_set(s, ins.acc, cdr_of(h, reg1_val)), g, next)
                ELSE EvalErr("Parameter to CDR is not a list", h, s, g, next)
          [] opcode = "CONS" ->
                LET a == alloc_tagged(h, new_pair(reg1_val, reg2_val))
                IN  Pending(a.heap, stack_set(s, ins.acc, a.val), g, next)
          [] opcode = "EQ" ->
                Pending(h, stack_set(s, ins.acc, eq_result(reg1_val, reg2_val)), g, next)
          [] opcode = "JMP" -> Pending(h, s, g, jump(next, ins))
          [] opcode = "JMPT" ->
                Pending(h, s, g, IF jmpt_taken(reg1_val) THEN jump(next, ins) ELSE next)
          [] opcode = "JMPNT" ->
                Pending(h, s, g, IF jmpnt_taken(reg1_val) THEN jump(next, ins) ELSE next)
          [] opcode = "LOADNIL" -> Pending(h, stack_set(s, ins.reg1, mem_nil), g, next)
          [] opcode = "LOADGLOBAL" ->
                IF reg1_val.tag = "sym"
                THEN IF dict_has(g, reg1_val)
                     THEN Pending(h, stack_set(s, ins.reg1, dict_lookup(g, reg1_val)),
                                  g, next)
                     ELSE EvalErr("Symbol not bound to value", h, s, g, next)
                ELSE EvalErr("Cannot lookup value for non-symbol type", h, s, g, next)
          [] opcode = "STOREGLOBAL" ->
                IF acc_val.tag = "sym"
                THEN Pending(h, s, store_global(g, acc_val, reg1_val), next)
                ELSE EvalErr("Cannot bind value to non-symbol type", h, s, g, next)

\* mutant: the range of the for loop includes max_instr
in_range_inclusive(i, n) == i <= n
\* for _ in 0..max_instr (vm.rs:197): is there an iteration after i of them
in_range(i, n) == i < n

\* what instruction `ins` read and left behind, for the claims to look at
Observed(s, ins, r) ==
    [run |-> TRUE, a |-> stack_get(s, ins.acc), r1 |-> stack_get(s, ins.reg1),
     r2 |-> stack_get(s, ins.reg2), out |-> stack_get(r.stack, ins.acc),
     out1 |-> stack_get(r.stack, ins.reg1), res |-> r.status]

\* the for loop of vm_eval_stream over n iterations (vm.rs:197-204), from the
\* state st = [status, val, err, heap, stack, globals, ip, obs, executed]; the
\* range is split in two so that the evaluation stays shallow
RECURSIVE run_stream(_, _, _)
run_stream(st, bc, n) ==
    IF n = 0 THEN st
    ELSE IF n = 1
    THEN Bind(eval_next_instr(st.heap, st.stack, st.globals, bc, st.ip),
              LAMBDA r :
                [status |-> r.status, val |-> r.val, err |-> r.err, heap |-> r.heap,
                 stack |-> r.stack, globals |-> r.globals, ip |-> r.ip,
                 obs |-> IF has_instr(bc, st.ip)
                         THEN [st.obs EXCEPT ![st.ip + 1] =
                                    Observed(st.stack, instr_at(bc, st.ip), r)]
                         ELSE st.obs,
                 executed |-> st.executed + 1])
    ELSE Bind(run_stream(st, bc, n \div 2),
              LAMBDA m : IF m.status = "Pending"
                         THEN run_stream(m, bc, n - (n \div 2))
                         ELSE m)

\* vm_eval_stream(mem, stack, globals, instr, max_instr) (vm.rs:190-205)
vm_eval_stream(h, s, g, bc, at, o, n) ==
    run_stream([status |-> "Pending", val |-> NilV, err |-> "", heap |-> h,
                stack |-> s, globals |-> g, ip |-> at, obs |-> o, executed |-> 0],
               bc, n)

\* mutant: Halt is reported as the end of the budget
quick_outcome_unexpected(st, e) ==
    CASE st = "Return" -> [q |-> "Ok", err |-> e]
      [] st = "Halt" -> [q |-> "Err", err |-> "Unexpected end of evaluation"]
      [] st = "Err" -> [q |-> "Err", err |-> e]
      [] OTHER -> [q |-> "Err", err |-> "Program halted"]
\* quick_vm_eval: the result for a status of vm_eval_stream (vm.rs:218-226)
quick_outcome(st, e) ==
    CASE st = "Return" -> [q |-> "Ok", err |-> e]
      [] st = "Halt" -> [q |-> "Err", err |-> "Program halted"]
      [] st = "Err" -> [q |-> "Err", err |-> e]
      [] OTHER -> [q |-> "Err", err |-> "Unexpected end of evaluation"]

-----------------------------------------------------------------------------
(* The inputs: expressions handed to compile, and hand-assembled bytecode  *)
(* for the opcodes and shapes the compiler never emits.                    *)

Src(term) == [src |-> TRUE, term |-> term, raw |-> ByteCode_new]
Raw(instrs, lits) ==
    [src |-> FALSE, term |-> TNil, raw |-> [code |-> instrs, literals |-> lits]]

\* (cond ((eq 1 2) (quote a)) ((atom 1) (quote b)) (true (quote c)))
CondOfPairs ==
    App("cond", << TList(<<App("eq", <<TNum(1), TNum(2)>>), Quote(TSym("a"))>>),
                   TList(<<App("atom", <<TNum(1)>>), Quote(TSym("b"))>>),
                   TList(<<TSym("true"), Quote(TSym("c"))>>) >>)
\* (cond (eq 1 2) (quote a) (atom 1) (quote b) true (quote c))
CondFlat ==
    App("cond", << App("eq", <<TNum(1), TNum(2)>>), Quote(TSym("a")),
                   App("atom", <<TNum(1)>>), Quote(TSym("b")),
                   TSym("true"), Quote(TSym("c")) >>)

SourceInputs ==
    << CondOfPairs,
       CondFlat,
       \* top-level conds whose conditions and exprs hold no cond
       App("cond", <<TSym("true"), Quote(TSym("a")), TSym("true"), Quote(TSym("b"))>>),
       App("cond", <<TSym("nil"), Quote(TSym("a")), Quote(TSym("x")), Quote(TSym("b")),
                     TNum(7), Quote(TSym("c"))>>),
       App("cond", <<App("cons", <<TNum(1), TNum(2)>>), Quote(TSym("a"))>>),
       App("cond", <<App("eq", <<Quote(TSym("a")), Quote(TSym("a"))>>),
                     App("cons", <<Quote(TSym("x")), TSym("nil")>>),
                     TSym("true"), Quote(TSym("b"))>>),
       App("cond", <<App("atom", <<App("cons", <<TNum(1), TNum(2)>>)>>), Quote(TSym("a")),
                     App("atom", <<TNum(1)>>), App("car", <<Quote(TList(<<TSym("p")>>))>>),
                     TSym("nil"), Quote(TSym("c"))>>),
       App("cond", <<App("car", <<Quote(TSym("a"))>>), TNum(1), TSym("true"), TNum(2)>>),
       App("cond", <<TSym("nil"), TNum(1), TSym("true"), App("cdr", <<TNum(3)>>)>>),
       \* a cond as an operand
       App("atom", <<App("cond", <<Quote(TSym("x")), Quote(TSym("y"))>>)>>),
       App("cons", <<Quote(TSym("p")), App("cond", <<TSym("true"), Quote(TSym("y"))>>)>>),
       App("cons", <<Quote(TSym("p")), App("cond", <<TNum(4), Quote(TSym("y"))>>)>>),
       App("cond", <<>>),
       App("cond", <<TSym("true")>>),
       App("cond", <<TSym("nil"), TNum(1), TSym("true")>>),
       \* car / cdr of cons
       App("car", <<App("cons", <<Quote(TSym("a")), Quote(TSym("b"))>>)>>),
       App("cdr", <<App("cons", <<Quote(TSym("a")), Quote(TSym("b"))>>)>>),
       App("car", <<App("cons", <<TNum(1), TSym("nil")>>)>>),
       App("cdr", <<App("cons", <<TSym("nil"), TNum(1)>>)>>),
       App("car", <<App("cons", <<Quote(TList(<<TSym("x"), TSym("y")>>)), TSym("s")>>)>>),
       App("cdr", <<App("cons", <<TSym("s"), Quote(TList(<<TSym("x"), TSym("y")>>))>>)>>),
       App("car", <<App("cons", <<App("cons", <<TNum(1), TNum(2)>>), Quote(TSym("z"))>>)>>),
       App("cdr", <<App("cons", <<Quote(TSym("z")), App("cons", <<TNum(1), TNum(2)>>)>>)>>),
       \* eq
       App("eq", <<App("cons", <<TNum(1), TNum(2)>>), App("cons", <<TNum(1), TNum(2)>>)>>),
       App("eq", <<Quote(TSym("a")), Quote(TSym("a"))>>),
       App("eq", <<Quote(TSym("a")), Quote(TSym("b"))>>),
       App("eq", <<TSym("nil"), Quote(TNil)>>),
       App("eq", <<Quote(TList(<<TSym("a")>>)), Quote(TList(<<TSym("a")>>))>>),
       App("eq", <<TSym("nil"), App("cons", <<TSym("nil"), TSym("nil")>>)>>),
       \* quote, atom, atoms, and the compile errors
       Quote(App("cons", <<TNum(1), TNum(2)>>)),
       App("atom", <<TSym("nil")>>),
       App("atom", <<Quote(TSym("a"))>>),
       App("atom", <<App("cons", <<TNum(1), TNum(2)>>)>>),
       App("car", <<Quote(TSym("a"))>>),
       App("foo", <<TNum(1)>>),
       TPair(Quote(TSym("a")), TList(<<TNum(1)>>)),
       App("cons", <<TNum(1)>>),
       TSym("a"),
       TSym("nil"),
       TNum(5),
       \* operators below the top, under quote, and in a clause that never runs
       App("car", <<App("cons", <<App("foo", <<>>), TNum(1)>>)>>),
       App("atom", <<TList(<<TNum(1), TNum(2)>>)>>),
       Quote(App("foo", <<TNum(1)>>)),
       App("atom", <<Quote(TList(<<TNum(1), TNum(2)>>))>>),
       App("cons", <<App("foo", <<>>), TList(<<TNum(1)>>)>>),
       App("cond", <<TSym("nil"), App("bar", <<>>)>>),
       TPair(TNil, TList(<<TNum(1)>>)),
       App("cond", <<TSym("true"), TNum(1), App("foo", <<>>)>>),
       \* clause lists of odd length, and clauses written as (condition expr) pairs
       App("atom", <<App("cond", <<TSym("true")>>)>>),
       App("cond", <<TList(<<App("eq", <<TNum(1), TNum(2)>>), Quote(TSym("a"))>>)>>),
       App("cond", <<TList(<<App("atom", <<TNum(1)>>), TNum(2)>>),
                     TList(<<TSym("true"), TNum(3)>>)>>),
       App("cond", <<TList(<<App("atom", <<TNum(1)>>)>>)>>),
       \* quote of an atom, of nil, of a quote, and with the wrong operands
       Quote(TSym("a")),
       Quote(TNil),
       Quote(TNum(3)),
       Quote(Quote(TSym("a"))),
       Quote(App("cond", <<TSym("true")>>)),
       App("quote", <<>>),
       App("quote", <<TSym("a"), TSym("b")>>),
       \* atom of a number and of the empty list
       App("atom", <<TNum(5)>>),
       App("atom", <<Quote(TNil)>>),
       \* the symbol true, and symbols as operands
       TSym("true"),
       App("cons", <<TSym("nil"), TSym("x")>>),
       \* a cond whose condition and whose expr are conds
       App("cond", <<App("cond", <<TSym("nil"), TNum(1)>>), TNum(2),
                     TSym("true"), App("cond", <<TSym("true"), TNum(3)>>)>>),
       \* a cond, empty or with clauses, as the first operand
       App("cons", <<App("cond", <<>>), Quote(TSym("b"))>>),
       App("eq", <<App("cond", <<>>), Quote(TSym("a"))>>),
       App("cons", <<App("cond", <<TSym("true"), Quote(TSym("p"))>>), Quote(TSym("b"))>>),
       App("cons", <<Quote(TSym("b")), App("cond", <<>>)>>) >>

\* hand-assembled instructions
I0(op) == Instr(op, 0, 0, 0, 0, 0)
LoadLit(acc, lit) == Instr("LOADLIT", acc, 0, 0, lit, 0)
Op2(op, acc, reg1) == Instr(op, acc, reg1, 0, 0, 0)
Op3(op, acc, reg1, reg2) == Instr(op, acc, reg1, reg2, 0, 0)
Return(reg) == Instr("RETURN", reg, 0, 0, 0, 0)
LoadNil(reg) == Instr("LOADNIL", 0, reg, 0, 0, 0)
LoadGlobal(reg) == Instr("LOADGLOBAL", 0, reg, 0, 0, 0)
Jmp(offset) == Instr("JMP", 0, 0, 0, 0, offset)
CondJmp(op, reg, offset) == Instr(op, 0, reg, 0, 0, offset)

\* more than one quantum of instructions before the RETURN
LongLen == Quantum + 4
LongCode ==
    [i \in 1..LongLen |-> IF i = LongLen THEN Return(0)
                          ELSE IF i = 1 THEN LoadLit(0, 0) ELSE LoadNil(1)]

RawInputs ==
    << \* HALT
       Raw(<<LoadNil(0), I0("HALT"), Return(0)>>, <<>>),
       \* bind s twice, read it back; t stays as it was
       Raw(<<LoadLit(0, 0), LoadLit(1, 1), Op2("STOREGLOBAL", 0, 1), LoadLit(2, 2),
             Op2("STOREGLOBAL", 0, 2), LoadLit(3, 0), LoadGlobal(3), Return(3)>>,
           <<Sym("s"), Sym("v1"), Sym("v2")>>),
       Raw(<<LoadLit(0, 0), LoadLit(1, 1), Op2("STOREGLOBAL", 0, 1), LoadLit(2, 2),
             Op3("CONS", 3, 0, 1), Op2("STOREGLOBAL", 2, 3), LoadGlobal(0),
             LoadGlobal(2), Op3("CONS", 4, 0, 2), Return(4)>>,
           <<Sym("s"), Sym("v1"), Sym("t")>>),
       \* read a symbol the program never bound
       Raw(<<LoadLit(0, 0), LoadGlobal(0), Return(0)>>, <<Sym("g")>>),
       Raw(<<LoadLit(0, 0), LoadLit(1, 1), Op2("STOREGLOBAL", 0, 1), LoadGlobal(1),
             Return(1)>>, <<Sym("s"), Sym("u")>>),
       \* non-symbols where a symbol is needed
       Raw(<<LoadNil(0), LoadGlobal(0), Return(0)>>, <<>>),
       Raw(<<LoadNil(0), LoadLit(1, 0), Op2("STOREGLOBAL", 0, 1), Return(1)>>,
           <<Sym("v")>>),
       \* CONS into one of its own operands, then CAR / CDR
       Raw(<<LoadLit(1, 0), LoadLit(2, 1), Op3("CONS", 1, 1, 2), Op2("CAR", 0, 1),
             Return(0)>>, <<Sym("a"), Sym("b")>>),
       Raw(<<LoadLit(1, 0), LoadLit(2, 1), Op3("CONS", 2, 1, 2), Op2("CDR", 2, 2),
             Return(2)>>, <<Sym("a"), Sym("b")>>),
       \* EQ both ways round, on one register, and on two Pairs of equal contents
       Raw(<<LoadLit(0, 0), LoadLit(1, 1), Op3("CONS", 2, 0, 1), Op3("CONS", 3, 0, 1),
             Op3("EQ", 4, 2, 3), Op3("EQ", 5, 3, 2), Op3("EQ", 0, 2, 2),
             Op3("EQ", 1, 4, 5), Return(4)>>, <<Sym("a"), Sym("b")>>),
       Raw(<<LoadLit(0, 0), LoadLit(1, 0), LoadLit(2, 1), Op3("EQ", 3, 0, 1),
             Op3("EQ", 4, 1, 2), Op3("EQ", 5, 2, 1), Return(3)>>, <<Sym("a"), Sym("b")>>),
       \* NIL, JMPT and JMP
       Raw(<<LoadNil(0), Op2("NIL", 1, 0), CondJmp("JMPT", 1, 1), I0("HALT"),
             Op2("NIL", 2, 1), CondJmp("JMPT", 2, 1), Jmp(1), I0("HALT"), Return(2)>>,
           <<>>),
       \* no RETURN and no HALT: the stream runs off the end
       Raw(<<LoadNil(0), LoadNil(1)>>, <<>>),
       \* ATOM of Nil, of a Symbol, and of a new Pair into the register it reads
       Raw(<<LoadNil(0), Op2("ATOM", 1, 0), LoadLit(2, 0), Op2("ATOM", 3, 2),
             Op3("CONS", 4, 0, 2), Op2("ATOM", 4, 4), Return(4)>>, <<Sym("a")>>),
       \* longer than one quantum
       Raw(LongCode, <<Sym("long")>>) >>

NSource == Len(SourceInputs)
NRaw == Len(RawInputs)
LongInput == NSource + NRaw
Input(p) == IF p <= NSource THEN Src(SourceInputs[p]) ELSE RawInputs[p - NSource]

\* the register stacks and global tables a caller may hand over
InitStacks == { [i \in 1..NumRegs |-> NilV], [i \in 1..NumRegs |-> Sym("true")] }
EmptyDict == [n \in {} |-> NilV]
InitGlobals == { EmptyDict, [n \in {"g"} |-> Sym("gv")] }

NotRun == [run |-> FALSE, a |-> NilV, r1 |-> NilV, r2 |-> NilV, out |-> NilV,
           out1 |-> NilV, res |-> ""]
NoObs(bc) == [i \in 1..Len(bc.code) |-> NotRun]

-----------------------------------------------------------------------------
(* Text (text.rs) *)

\* a &str is the sequence of its chars, a char its code point: one char for
\* each length of UTF-8 encoding
Chars == {97, 233, 12371, 128512}
Strs == UNION { [1..n -> Chars] : n \in 0..MaxChars }

\* the UTF-8 bytes of a char
utf8(cp) ==
    IF cp < 128 THEN <<cp>>
    ELSE IF cp < 2048 THEN <<192 + (cp \div 64), 128 + (cp % 64)>>
    ELSE IF cp < 65536
    THEN <<224 + (cp \div 4096), 128 + ((cp \div 64) % 64), 128 + (cp % 64)>>
    ELSE <<240 + (cp \div 262144), 128 + ((cp \div 4096) % 64),
           128 + ((cp \div 64) % 64), 128 + (cp % 64)>>
\* the bytes from_str.as_ptr() points to
RECURSIVE as_bytes(_)
as_bytes(s) == IF s = <<>> THEN <<>> ELSE utf8(Head(s)) \o as_bytes(Tail(s))
\* mutant: the length of a str counted in chars
str_len_chars(s) == Len(s)
\* from_str.len(): the length in bytes
str_len(s) == Len(as_bytes(s))

Continuation(b) == b >= 128 /\ b < 192
\* str::from_utf8: the chars of a byte slice, or an error
RECURSIVE from_utf8(_)
from_utf8(bytes) ==
    IF bytes = <<>> THEN [ok |-> TRUE, str |-> <<>>]
    ELSE
    LET b == Head(bytes)
        n == IF b < 128 THEN 1
             ELSE IF b >= 192 /\ b < 224 THEN 2
             ELSE IF b >= 224 /\ b < 240 THEN 3
             ELSE IF b >= 240 /\ b < 248 THEN 4
             ELSE 0
    IN  IF n = 0 \/ Len(bytes) < n
           \/ \E i \in 2..n : ~Continuation(bytes[i])
        THEN [ok |-> FALSE, str |-> <<>>]
        ELSE
        LET cp == CASE n = 1 -> b
                    [] n = 2 -> (b - 192) * 64 + (bytes[2] - 128)
                    [] n = 3 -> (b - 224) * 4096 + (bytes[2] - 128) * 64
                                + (bytes[3] - 128)
                    [] n = 4 -> (b - 240) * 262144 + (bytes[2] - 128) * 4096
                                + (bytes[3] - 128) * 64 + (bytes[4] - 128)
            rest == from_utf8(SubSeq(bytes, n + 1, Len(bytes)))
        IN  IF rest.ok THEN [ok |-> TRUE, str |-> <<cp>> \o rest.str] ELSE rest

\* RawArray<u8>: as_ptr() is Some exactly when has_ptr
RawArray_new == [has_ptr |-> FALSE, capacity |-> 0, bytes |-> <<>>]
\* RawArray::with_capacity(mem, capacity): storage of `capacity` bytes, or
\* the error of the allocation when the heap has less room
with_capacity(free, capacity) ==
    IF capacity > free THEN [ok |-> FALSE, err |-> "OutOfMemory", free |-> free]
    ELSE [ok |-> TRUE, err |-> "",
          content |-> [has_ptr |-> TRUE, capacity |-> capacity,
                       bytes |-> [i \in 1..capacity |-> 0]],
          free |-> free - capacity]

NoText == [content |-> RawArray_new, none |-> TRUE]
Unread == [read |-> FALSE, panic |-> FALSE, str |-> <<>>]
\* Text::new_empty()
new_empty == [content |-> RawArray_new, none |-> FALSE]
\* Text::new_from_str(mem, from_str): [result, text, free]
new_from_str(free, s) ==
    LET len == str_len(s)
    IN  IF len > MaxArraySize
        THEN [result |-> "BadAllocationRequest", text |-> NoText, free |-> free]
        ELSE
        LET a == with_capacity(free, len)
        IN  IF ~a.ok THEN [result |-> a.err, text |-> NoText, free |-> a.free]
            ELSE IF a.content.has_ptr
            THEN [result |-> "Ok",
                  text |-> [content |->
                              [a.content EXCEPT !.bytes =
                                  [i \in 1..Len(@) |->
                                      IF i <= len THEN as_bytes(s)[i] ELSE @[i]]],
                            none |-> FALSE],
                  free |-> a.free]
            ELSE [result |-> "panic", text |-> NoText, free |-> a.free]
\* Text::as_str / unguarded_as_str
as_str(t) ==
    IF t.content.has_ptr
    THEN LET u == from_utf8(SubSeq(t.content.bytes, 1, t.content.capacity))
         IN  [read |-> TRUE, panic |-> ~u.ok, str |-> u.str]
    ELSE [read |-> TRUE, panic |-> FALSE, str |-> <<>>]

TextIdle ==
    /\ from_str = <<>>
    /\ room = 0
    /\ text = NoText
    /\ made = "none"
    /\ tresult = "none"
    /\ got = Unread

-----------------------------------------------------------------------------
(* The state machine *)

\* Arena::new(size): the buffer, bump = 0 (memory.rs:70-82)
Arena_new ==
    /\ bump = 0
    /\ buffer = [i \in 0..(ArenaSize - 1) |-> 0]
    /\ allocs = <<>>
    /\ panicked = ""
    /\ last = [result |-> "none", before |-> 0, size |-> 0]

Init ==
    /\ prog \in 1..(NSource + NRaw)
    /\ driver \in (IF prog = LongInput THEN {"quick"} ELSE {"host", "quick"})
    /\ stack \in (IF prog = LongInput THEN {[i \in 1..NumRegs |-> NilV]} ELSE InitStacks)
    /\ globals \in (IF prog = LongInput THEN {EmptyDict} ELSE InitGlobals)
    /\ start = [stack |-> stack, globals |-> globals]
    /\ LET in == Input(prog)
           l == Load(<<>>, in.term)
       IN  /\ heap = l.heap
           /\ ast = l.val
           /\ phase = IF in.src THEN "source" ELSE "ready"
           /\ code = in.raw
           /\ obs = NoObs(in.raw)
    /\ cerr = ""
    /\ ip = 0
    /\ active = FALSE
    /\ max_instr = 0
    /\ executed = 0
    /\ status = "None"
    /\ retval = NilV
    /\ err = ""
    /\ qstatus = "None"
    /\ Arena_new
    /\ TextIdle

\* compile(mem, ast): the bytecode, or the error and no bytecode
Compile ==
    /\ phase = "source"
    /\ LET r == compile(heap, ast)
       IN  /\ phase' = IF r.ok THEN "ready" ELSE "failed"
           /\ cerr' = r.err
           /\ code' = r.bytecode
           /\ obs' = NoObs(r.bytecode)
    /\ UNCHANGED <<prog, start, heap, ast, stack, globals, ip, driver, active,
                   max_instr, executed, status, retval, err, qstatus, arenavars, textvars>>

\* entry of vm_eval_stream(mem, stack, globals, instr, m)
EnterStream(m) ==
    /\ active' = TRUE
    /\ max_instr' = m
    /\ executed' = 0
    /\ status' = "Running"
    /\ UNCHANGED <<prog, start, heap, ast, phase, cerr, code, stack, globals, ip,
                   driver, retval, err, qstatus, obs, arenavars, textvars>>

\* the host calls vm_eval_stream, first or to resume after Pending
HostCall(m) ==
    /\ phase = "ready"
    /\ driver = "host"
    /\ ~active
    /\ status \in {"None", "Pending"}
    /\ EnterStream(m)

\* quick_vm_eval: one turn of while status == Pending, a call of vm_eval_stream
\* with 1024 and the match on what it returns (vm.rs:216-224); the local status
\* starts as Pending
QuickIter ==
    /\ phase = "ready"
    /\ driver = "quick"
    /\ qstatus = "None"
    /\ status \in {"None", "Pending"}
    /\ LET r == vm_eval_stream(heap, stack, globals, code, ip, obs, Quantum)
           o == quick_outcome(r.status, r.err)
       IN  /\ heap' = r.heap
           /\ stack' = r.stack
           /\ globals' = r.globals
           /\ ip' = r.ip
           /\ obs' = r.obs
           /\ max_instr' = Quantum
           /\ executed' = r.executed
           /\ status' = r.status
           /\ retval' = IF r.status = "Return" THEN r.val ELSE retval
           /\ qstatus' = IF r.status = "Pending" THEN "None" ELSE o.q
           /\ err' = IF r.status = "Pending" THEN err ELSE o.err
    /\ UNCHANGED <<prog, start, ast, phase, cerr, code, driver, active, arenavars, textvars>>

\* one iteration of the for loop of vm_eval_stream (vm.rs:197-203)
StreamIter ==
    /\ active
    /\ in_range(executed, max_instr)
    /\ LET r == eval_next_instr(heap, stack, globals, code, ip)
       IN  /\ heap' = r.heap
           /\ stack' = r.stack
           /\ globals' = r.globals
           /\ ip' = r.ip
           /\ executed' = executed + 1
           /\ obs' = IF has_instr(code, ip)
                     THEN [obs EXCEPT ![ip + 1] = Observed(stack, instr_at(code, ip), r)]
                     ELSE obs
           /\ active' = (r.status = "Pending")
           /\ status' = IF r.status = "Pending" THEN "Running" ELSE r.status
           /\ retval' = IF r.status = "Return" THEN r.val ELSE retval
           /\ err' = IF r.status = "Err" THEN r.err ELSE err
    /\ UNCHANGED <<prog, start, ast, phase, cerr, code, driver, max_instr, qstatus,
                   arenavars, textvars>>

\* mutant: the stream loses one instruction at the end of a call
StreamDone_skip ==
    /\ active
    /\ ~in_range(executed, max_instr)
    /\ active' = FALSE
    /\ status' = "Pending"
    /\ ip' = ip + 1
    /\ UNCHANGED <<prog, start, heap, ast, phase, cerr, code, stack, globals,
                   driver, max_instr, executed, retval, err, qstatus, obs, arenavars, textvars>>

\* the for loop is over: Ok(EvalStatus::Pending) (vm.rs:204)
StreamDone ==
    /\ active
    /\ ~in_range(executed, max_instr)
    /\ active' = FALSE
    /\ status' = "Pending"
    /\ UNCHANGED <<prog, start, heap, ast, phase, cerr, code, stack, globals, ip,
                   driver, max_instr, executed, retval, err, qstatus, obs, arenavars, textvars>>

Next ==
    \/ Compile
    \/ \E m \in 0..MaxBudget : HostCall(m)
    \/ QuickIter
    \/ StreamIter
    \/ StreamDone

Spec == Init /\ [][Next]_vars

-----------------------------------------------------------------------------
(* Claims *)

IsSource(term) == prog <= NSource /\ Input(prog).term = term
QuickOk == driver = "quick" /\ qstatus = "Ok"
QuickOver == driver = "quick" /\ qstatus # "None"

-----------------------------------------------------------------------------
(* Reading a cond off the input and off its bytecode.  A cond with K        *)
(* clauses is laid out as, for each clause, the condition's code, a JMPNT,  *)
(* the expr's code and a JMP, and after the last clause one LOADNIL.        *)

RECURSIVE HasCond(_)
HasCond(term) ==
    /\ term.t = "pair"
    /\ \/ term.first = TSym("cond")
       \/ HasCond(term.first)
       \/ HasCond(term.second)

RECURSIVE TItems(_)
TItems(term) ==
    IF term.t = "pair" THEN <<term.first>> \o TItems(term.second) ELSE <<>>

IsCond(term) == term.t = "pair" /\ term.first = TSym("cond")
\* the input is a cond whose conditions and exprs hold no further cond
PlainCond ==
    /\ prog <= NSource
    /\ IsCond(Input(prog).term)
    /\ ~HasCond(Input(prog).term.second)
    /\ phase = "ready"
\* the input is one operator applied to operands of which the last is a cond
\* with no further cond inside
OperandCond ==
    /\ prog <= NSource
    /\ Input(prog).term.t = "pair"
    /\ Input(prog).term.first \in {TSym("atom"), TSym("cons")}
    /\ LET args == TItems(Input(prog).term.second)
       IN  /\ args # <<>>
           /\ IsCond(args[Len(args)])
           /\ ~HasCond(args[Len(args)].second)
           /\ \A i \in 1..(Len(args) - 1) : ~HasCond(args[i])
    /\ phase = "ready"

OpIndices(op) == { i \in 0..(Len(code.code) - 1) : code.code[i + 1].op = op }
\* the k-th instruction, in address order, with opcode op
NthOp(op, k) ==
    CHOOSE i \in OpIndices(op) : Cardinality({ j \in OpIndices(op) : j < i }) = k - 1
NumClauses == Cardinality(OpIndices("JMPNT"))
JmpntOf(k) == NthOp("JMPNT", k)
EndJumpOf(k) == NthOp("JMP", k)
LoadNilAt == EndJumpOf(NumClauses) + 1
CondEnd == LoadNilAt + 1
HasRun(i) == obs[i + 1].run
\* the value clause k's condition had when its JMPNT tested it
CondVal(k) == obs[JmpntOf(k) + 1].r1
CondTrue(k) == HasRun(JmpntOf(k)) /\ CondVal(k) = Sym("true")
CondNotTrue(k) == HasRun(JmpntOf(k)) /\ CondVal(k) # Sym("true")
\* clause k is the first whose condition evaluated to the true-symbol
FirstTrue(k) == CondTrue(k) /\ \A j \in 1..(k - 1) : CondNotTrue(j)
\* the register the cond leaves its result in
CondResultReg == code.code[JmpntOf(1) + 1].reg1
\* the value clause k's expr had left in the result register at its end JMP (a
\* JMP names no register: its acc field is 0, the result register of a
\* top-level cond)
ExprVal(k) == obs[EndJumpOf(k) + 1].a
ExprTerm(k) == TItems(Input(prog).term.second)[2 * k]
IsQuotedSym(t) ==
    /\ t.t = "pair"
    /\ t.first = TSym("quote")
    /\ t.second.t = "pair"
    /\ t.second.first.t = "sym"

\* C2: in a compiled cond, once the first condition that evaluates to the
\* true-symbol has been tested, no instruction of a later clause (condition,
\* JMPNT, expr or end JMP) is ever executed, and the value returned is the value
\* that clause's expr left in the result register (the quoted symbol itself when
\* the expr is a quoted symbol).
C2_FirstTrueClauseWins ==
    PlainCond =>
        \A k \in 1..NumClauses :
            FirstTrue(k) =>
                /\ \A i \in (EndJumpOf(k) + 1)..EndJumpOf(NumClauses) : ~HasRun(i)
                /\ status = "Return" =>
                        /\ HasRun(EndJumpOf(k))
                        /\ retval = ExprVal(k)
                        /\ IsQuotedSym(ExprTerm(k)) =>
                                retval = Sym(ExprTerm(k).second.first.name)

C2_Witness ==
    /\ PlainCond
    /\ status = "Return"
    /\ \E k \in 2..(NumClauses - 1) : FirstTrue(k) /\ IsQuotedSym(ExprTerm(k))


AllCondsNotTrue == NumClauses >= 1 /\ \A k \in 1..NumClauses : CondNotTrue(k)
\* control has just left the cond: the next instruction is the one after it
CondLeft == ip = CondEnd /\ status \in {"Running", "Pending"}
CondResult == stack_get(stack, CondResultReg)

\* C3: when no condition of a compiled cond evaluated to the true-symbol, the
\* cond's result register holds Nil as control leaves the cond, whatever the
\* conditions evaluated to and wherever the cond stands in the expression.
C3_NoTrueYieldsNil ==
    ((PlainCond \/ OperandCond) /\ AllCondsNotTrue /\ CondLeft) => CondResult = NilV

C3_LastConditionLeft ==
    /\ PlainCond /\ AllCondsNotTrue /\ CondLeft
    /\ CondResult.tag = "pair" /\ CondResult = CondVal(NumClauses)

-----------------------------------------------------------------------------
(* car / cdr of cons *)

Instrs == 0..(Len(code.code) - 1)
OpAt(i) == code.code[i + 1].op
Ran(i, op) == OpAt(i) = op /\ HasRun(i)

\* walking the AST in the heap: the n-th operand of the form `node`
RECURSIVE NthCdr(_, _)
NthCdr(node, n) == IF n = 0 THEN node ELSE NthCdr(heap[node.addr].second, n - 1)
Operand(node, n) == heap[NthCdr(node, n).addr].first
Operator(node) == heap[node.addr].first
\* a form that evaluates to itself or to its quoted operand
IsLiteralForm(node) == node.tag # "pair" \/ Operator(node) = Sym("quote")
LiteralValue(node) ==
    IF node.tag = "pair" THEN Operand(node, 1)
    ELSE IF node = Sym("nil") THEN NilV ELSE node

\* the input is (car (cons x y)) or (cdr (cons x y))
CarOfCons(which) ==
    /\ prog <= NSource
    /\ phase = "ready"
    /\ ast.tag = "pair"
    /\ Operator(ast) = Sym(which)
    /\ Operand(ast, 1).tag = "pair"
    /\ Operator(Operand(ast, 1)) = Sym("cons")
XForm == Operand(Operand(ast, 1), 1)
YForm == Operand(Operand(ast, 1), 2)
TheCons == CHOOSE i \in Instrs : OpAt(i) = "CONS" /\ OpAt(i + 1) \in {"CAR", "CDR"}

\* C4: CAR (CDR) executed right after a CONS, on the register the CONS wrote,
\* leaves in its acc the very value the CONS read from r1 (r2); and the compiled
\* (car (cons x y)) returns the value of x, (cdr (cons x y)) the value of y: the
\* value the CONS read for it, which for a literal x or y is the literal itself.
C4_CarCdrOfCons ==
    /\ phase = "ready" =>
        \A i \in Instrs :
            (/\ Ran(i, "CONS")
             /\ i + 1 \in Instrs
             /\ code.code[i + 2].reg1 = code.code[i + 1].acc) =>
                /\ Ran(i + 1, "CAR") => obs[i + 2].out = obs[i + 1].r1
                /\ Ran(i + 1, "CDR") => obs[i + 2].out = obs[i + 1].r2
    /\ (CarOfCons("car") /\ status = "Return") =>
            /\ retval = obs[TheCons + 1].r1
            /\ IsLiteralForm(XForm) => retval = LiteralValue(XForm)
    /\ (CarOfCons("cdr") /\ status = "Return") =>
            /\ retval = obs[TheCons + 1].r2
            /\ IsLiteralForm(YForm) => retval = LiteralValue(YForm)

\* (car (cons (quote (x y)) s)) has returned the quoted list itself
C4_Witness ==
    /\ CarOfCons("car") /\ status = "Return"
    /\ IsLiteralForm(XForm) /\ XForm.tag = "pair"
    /\ retval = LiteralValue(XForm) /\ retval.tag = "pair"

-----------------------------------------------------------------------------
(* eq *)

EqRuns == { i \in Instrs : Ran(i, "EQ") }
ConsRuns == { i \in Instrs : Ran(i, "CONS") }
True == Sym("true")

\* C5: EQ leaves the true-symbol or Nil; the true-symbol exactly when its two
\* operands are the same value (same immediate, same heap object), so always for
\* an operand compared with itself; the same answer with the operands exchanged;
\* and Nil for the Pairs made by two different CONS instructions, equal contents
\* or not.
C5_EqIsIdentity ==
    phase = "ready" =>
        /\ \A i \in EqRuns :
              /\ obs[i + 1].out \in {True, NilV}
              /\ obs[i + 1].out = True <=> obs[i + 1].r1 = obs[i + 1].r2
              /\ code.code[i + 1].reg1 = code.code[i + 1].reg2 => obs[i + 1].out = True
        /\ \A i, j \in EqRuns :
              (obs[i + 1].r1 = obs[j + 1].r2 /\ obs[i + 1].r2 = obs[j + 1].r1) =>
                    obs[i + 1].out = obs[j + 1].out
        /\ \A i \in EqRuns : \A c, d \in ConsRuns :
              (c # d /\ obs[i + 1].r1 = obs[c + 1].out /\ obs[i + 1].r2 = obs[d + 1].out) =>
                    obs[i + 1].out = NilV

\* two Pairs of equal contents compared both ways round, and one with itself
C5_Witness ==
    /\ phase = "ready"
    /\ \E i, j, k \in EqRuns : \E c, d \in ConsRuns :
          /\ c # d /\ i # j
          /\ obs[c + 1].r1 = obs[d + 1].r1 /\ obs[c + 1].r2 = obs[d + 1].r2
          /\ obs[i + 1].r1 = obs[c + 1].out /\ obs[i + 1].r2 = obs[d + 1].out
          /\ obs[j + 1].r1 = obs[d + 1].out /\ obs[j + 1].r2 = obs[c + 1].out
          /\ obs[i + 1].out = NilV /\ obs[j + 1].out = NilV
          /\ obs[k + 1].r1 = obs[c + 1].out /\ obs[k + 1].out = True

-----------------------------------------------------------------------------
(* the instruction budget *)

\* the heap the evaluation started from: compile allocates no value the VM sees
StartHeap == Load(<<>>, Input(prog).term).heap
\* no input jumps backwards, so a budget of one more than the code length
\* reaches the instruction that ends the evaluation
ForwardOnly == \A i \in Instrs : code.code[i + 1].offset >= 0
OneCall ==
    vm_eval_stream(StartHeap, start.stack, start.globals, code, 0, NoObs(code),
                   Len(code.code) + 1)

\* C6: an evaluation the host drives by repeated vm_eval_stream calls of any
\* budgets, resumed after each Pending, ends as one call with a budget large
\* enough ends: the same Return value (or Halt, or error), the same registers,
\* the same globals and the same heap.
C6_BudgetInterleaving ==
    (phase = "ready" /\ driver = "host" /\ status \in {"Return", "Halt", "Err"}) =>
        /\ ForwardOnly
        /\ OneCall.status = status
        /\ status = "Return" => retval = OneCall.val
        /\ status = "Err" => err = OneCall.err
        /\ stack = OneCall.stack
        /\ globals = OneCall.globals
        /\ heap = OneCall.heap

\* the call that returned a Pair had a budget of 1 and executed only the RETURN:
\* the instructions before it ran in earlier calls
C6_Witness ==
    /\ phase = "ready" /\ driver = "host" /\ status = "Return"
    /\ max_instr = 1 /\ executed = 1 /\ ip >= 4
    /\ retval.tag = "pair" /\ retval = OneCall.val

C7_State ==
    /\ status # "None" => executed <= max_instr
    /\ active <=> status = "Running"
    /\ status = "Pending" => executed = max_instr
    /\ status = "Return" => ip >= 1 /\ Ran(ip - 1, "RETURN") /\ retval = obs[ip].a
    /\ status = "Halt" => ip >= 1 /\ Ran(ip - 1, "HALT")
C7_Step ==
    \* within the budget one more instruction is executed, the one at ip
    /\ (active /\ executed < max_instr) =>
            /\ executed' = executed + 1
            /\ has_instr(code, ip) => obs'[ip + 1].run
            /\ status' \in {"Running", "Return", "Halt", "Err"}
    \* with the budget used the call returns Pending and moves nothing
    /\ (active /\ executed = max_instr) =>
            /\ status' = "Pending"
            /\ UNCHANGED <<ip, heap, stack, globals, executed, obs>>
    \* nothing is executed after Return or Halt
    /\ status \in {"Return", "Halt"} =>
            UNCHANGED <<status, ip, heap, stack, globals, executed, obs, retval>>
    \* the next call starts where the Pending one stopped
    /\ (status = "Pending" /\ active') =>
            /\ executed' = 0
            /\ UNCHANGED <<ip, heap, stack, globals, obs>>
    /\ (status = "Pending" /\ executed' >= 1) => (has_instr(code, ip) => obs'[ip + 1].run)

\* C7: one call of vm_eval_stream executes at most max_instr instructions; the
\* instruction that gives Return or Halt is the last one it executes; it returns
\* Pending exactly when max_instr instructions (none for max_instr = 0) were
\* executed and none gave Return, Halt or an error, and the stream then stays
\* at the next instruction, where the following call resumes.
C7_StreamBudget == [](C7_State) /\ [][C7_Step]_vars

\* a call with budget 0 on a stream part-way through: Pending, nothing executed
C7_Witness ==
    /\ phase = "ready" /\ status = "Pending"
    /\ max_instr = 0 /\ executed = 0
    /\ ip >= 1 /\ ip \in Instrs /\ HasRun(ip - 1) /\ ~HasRun(ip)

-----------------------------------------------------------------------------
(* quick_vm_eval *)

QuickDecided == driver = "quick" /\ qstatus # "None"
C8_Outcomes ==
    /\ (driver = "quick" /\ status # "None") => max_instr = 1024
    /\ QuickDecided => (qstatus = "Ok" <=> status = "Return")
    /\ (QuickDecided /\ status = "Halt") => (qstatus = "Err" /\ err = "Program halted")
\* a quantum is used up and the program has reached neither RETURN nor HALT
PendingQuantum == driver = "quick" /\ status = "Pending" /\ executed = 1024

\* C8 as stated: quanta of 1024; Ok for RETURN, "Program halted" for HALT, and
\* "Unexpected end of evaluation" once the budget is used without either.
C8_UnexpectedEndOnExhaustion ==
    /\ C8_Outcomes
    /\ PendingQuantum => (qstatus = "Err" /\ err = "Unexpected end of evaluation")

C8_NoBudget ==
    /\ QuickDecided => status \in {"Return", "Halt", "Err"}
    /\ (QuickDecided /\ status = "Err") =>
            (qstatus = "Err" /\ err \notin {"", "Program halted"})
    /\ err # "Unexpected end of evaluation"
    /\ PendingQuantum => (qstatus = "None" /\ err = "")

\* C8: quick_vm_eval runs quanta of 1024 instructions, the next one as soon as
\* one ends Pending, until RETURN (Ok of the value), HALT (error "Program
\* halted") or a failing instruction (its error); the end of a quantum is never
\* an error and "Unexpected end of evaluation" is never the outcome.
C8_QuickOutcome ==
    /\ [](C8_Outcomes /\ C8_NoBudget)
    /\ [][PendingQuantum =>
            (/\ max_instr' = 1024 /\ executed' >= 1
             /\ has_instr(code, ip) => obs'[ip + 1].run
             /\ status' \in {"Pending", "Return", "Halt", "Err"})]_vars

\* Ok for a program that needed a second quantum
C8_Witness ==
    /\ driver = "quick" /\ qstatus = "Ok" /\ status = "Return"
    /\ ip > 1024 /\ executed < ip

-----------------------------------------------------------------------------
(* globals *)

\* the STOREGLOBALs on symbol s executed before instruction i
Stores(s, i) ==
    { j \in Instrs : j < i /\ Ran(j, "STOREGLOBAL") /\ obs[j + 1].a = s
                           /\ obs[j + 1].res = "Pending" }
Latest(S) == CHOOSE x \in S : \A y \in S : y <= x
Loads == { i \in Instrs : Ran(i, "LOADGLOBAL") /\ obs[i + 1].r1.tag = "sym" }

\* C9: LOADGLOBAL on a register holding symbol s leaves in it the value of the
\* latest STOREGLOBAL on s, whatever was bound to other symbols in between; with
\* no STOREGLOBAL on s, the binding the globals came with; and with neither it
\* fails with "Symbol not bound to value".
C9_GlobalsRoundTrip ==
    (phase = "ready" /\ ForwardOnly) =>
        \A i \in Loads :
            LET s == obs[i + 1].r1
                js == Stores(s, i)
            IN  IF js # {}
                THEN /\ obs[i + 1].res = "Pending"
                     /\ obs[i + 1].out1 = obs[Latest(js) + 1].r1
                ELSE IF s.name \in DOMAIN start.globals
                THEN /\ obs[i + 1].res = "Pending"
                     /\ obs[i + 1].out1 = start.globals[s.name]
                ELSE /\ obs[i + 1].res = "Err"
                     /\ status = "Err"
                     /\ err = "Symbol not bound to value"

\* s was bound twice and another symbol in between or after; the load gave the
\* second value
C9_Witness ==
    /\ phase = "ready"
    /\ \E i \in Loads :
          LET s == obs[i + 1].r1
              js == Stores(s, i)
          IN  /\ Cardinality(js) >= 2
              /\ obs[i + 1].out1 = obs[Latest(js) + 1].r1
              /\ \E j \in js : obs[j + 1].r1 # obs[i + 1].out1

-----------------------------------------------------------------------------
(* The Arena (memory.rs): a buffer of ArenaSize bytes and a bump offset.    *)
(* Its state is apart from the evaluator's, which SpecArena holds still.    *)

\* objects are told apart by the byte they fill their size with
ObjectBytes == 1..2
ObjectSizes == 1..MaxObjSize

\* mutant: an object that ends at the last byte does not fit
fits_below(next_bump, size) == next_bump < size
\* the negation of next_bump > self.size (memory.rs:88)
fits(next_bump, size) == ~(next_bump > size)

\* mutant: the object is written at the start of the buffer
alloc_at_start(object_size, object) ==
    LET next_bump == bump + object_size
    IN  /\ panicked = ""
        /\ last' = [result |-> IF fits(next_bump, ArenaSize) THEN "ptr" ELSE "panic",
                    before |-> bump, size |-> object_size]
        /\ IF fits(next_bump, ArenaSize)
           THEN /\ buffer' = [i \in DOMAIN buffer |->
                                IF i < object_size THEN object ELSE buffer[i]]
                /\ bump' = next_bump
                /\ allocs' = Append(allocs, [ptr |-> bump, size |-> object_size])
                /\ panicked' = ""
           ELSE /\ panicked' = "out of memory"
                /\ UNCHANGED <<bump, buffer, allocs>>

\* Arena::alloc(object), size_of::<T>() = object_size (memory.rs:86-106): panic
\* when the object does not fit, else write it at bump and advance bump
alloc(object_size, object) ==
    LET next_bump == bump + object_size
    IN  /\ panicked = ""
        /\ last' = [result |-> IF fits(next_bump, ArenaSize) THEN "ptr" ELSE "panic",
                    before |-> bump, size |-> object_size]
        /\ IF fits(next_bump, ArenaSize)
           THEN /\ buffer' = [i \in DOMAIN buffer |->
                                IF i >= bump /\ i < next_bump THEN object ELSE buffer[i]]
                /\ bump' = next_bump
                /\ allocs' = Append(allocs, [ptr |-> bump, size |-> object_size])
                /\ panicked' = ""
           ELSE /\ panicked' = "out of memory"
                /\ UNCHANGED <<bump, buffer, allocs>>

\* the evaluator, not started
VmIdle ==
    /\ prog = 1
    /\ driver = "host"
    /\ stack = [i \in 1..NumRegs |-> NilV]
    /\ globals = EmptyDict
    /\ start = [stack |-> stack, globals |-> globals]
    /\ heap = <<>>
    /\ ast = NilV
    /\ phase = "none"
    /\ code = ByteCode_new
    /\ obs = NoObs(ByteCode_new)
    /\ cerr = ""
    /\ ip = 0
    /\ active = FALSE
    /\ max_instr = 0
    /\ executed = 0
    /\ status = "None"
    /\ retval = NilV
    /\ err = ""
    /\ qstatus = "None"

InitArena == VmIdle /\ Arena_new /\ TextIdle
Alloc == \E object_size \in ObjectSizes, object \in ObjectBytes :
            alloc(object_size, object) /\ UNCHANGED <<vmvars, textvars>>
NextArena == Alloc
SpecArena == InitArena /\ [][NextArena]_vars

Exhausted == last.result # "none" /\ last.before + last.size > ArenaSize

\* C10 as stated: an alloc over the remaining capacity returns the OutOfMemory
\* error to its caller, without a panic, a write or a move of bump.
C10_OutOfMemoryReturned ==
    /\ [](Exhausted => (last.result = "OutOfMemory" /\ panicked = "" /\ bump = last.before))
    /\ [][Exhausted' => UNCHANGED <<bump, buffer>>]_vars

\* C10: an alloc whose object does not fit in the remaining capacity, and no
\* other, panics with "out of memory": no value returns to the caller; nothing
\* is written into the buffer and bump stays where it was.
C10_ExhaustionPanics ==
    /\ [](/\ Exhausted <=> last.result = "panic"
          /\ last.result = "panic" <=> panicked = "out of memory"
          /\ panicked \in {"", "out of memory"}
          /\ last.result = "panic" => bump = last.before
          /\ last.result = "ptr" => bump = last.before + last.size
          /\ bump <= ArenaSize)
    /\ [][last'.result = "panic" => UNCHANGED <<bump, buffer, allocs>>]_vars

\* the panic of a request larger than the room left in a part-filled arena
C10_Witness ==
    /\ panicked = "out of memory" /\ last.result = "panic"
    /\ bump > 0 /\ bump < ArenaSize /\ bump + last.size > ArenaSize

-----------------------------------------------------------------------------
(* what compile returns *)

Compiled == prog <= NSource /\ phase = "ready"
Rejected == prog <= NSource /\ phase = "failed"
LastInstr == code.code[Len(code.code)]

\* C11: the bytecode of a successful compile ends with RETURN of the register
\* compile_eval returned for the whole expression, and holds no other RETURN.
C11_ReturnIsLast ==
    Compiled =>
        /\ Len(code.code) >= 1
        /\ LastInstr.op = "RETURN"
        /\ LastInstr.acc = compile_eval(heap, Compiler_new, ast).reg
        /\ \A i \in Instrs : OpAt(i) = "RETURN" => i = Len(code.code) - 1

\* a compiled cond as an operand: jumps and operators before the one RETURN
C11_Witness ==
    /\ Compiled /\ status = "None"
    /\ Len(code.code) >= 6
    /\ LastInstr.op = "RETURN"
    /\ \E i \in Instrs : OpAt(i) = "JMPNT"
    /\ compile_eval(heap, Compiler_new, ast).c.next_reg >= 2

KnownOps == {"quote", "atom", "car", "cdr", "cons", "cond", "eq"}
RECURSIVE UnionOver(_)
UnionOver(sets) == IF sets = <<>> THEN {} ELSE Head(sets) \cup UnionOver(Tail(sets))
\* the operands compile_apply hands on to compile_eval, by operator
Evaluated(t) ==
    LET args == TItems(t.second)
    IN  IF t.first.t # "sym" THEN <<>>
        ELSE CASE t.first.name \in {"atom", "car", "cdr"} ->
                    IF Len(args) = 1 THEN args ELSE <<>>
               [] t.first.name \in {"cons", "eq"} ->
                    IF Len(args) = 2 THEN args ELSE <<>>
               [] t.first.name = "cond" -> SubSeq(args, 1, 2 * (Len(args) \div 2))
               [] OTHER -> <<>>
\* the operand list has the length the operator takes
Shapely(t) ==
    LET args == TItems(t.second)
    IN  IF t.first.t # "sym" THEN TRUE
        ELSE CASE t.first.name \in {"quote", "atom", "car", "cdr"} -> Len(args) = 1
               [] t.first.name \in {"cons", "eq"} -> Len(args) = 2
               [] t.first.name = "cond" -> Len(args) % 2 = 0
               [] OTHER -> TRUE
\* the Pair nodes in evaluated position: the form and, outside quote, the
\* Pair operands of every such node
RECURSIVE EvalNodes(_)
EvalNodes(t) ==
    IF t.t # "pair" THEN {}
    ELSE {t} \cup UnionOver([i \in 1..Len(Evaluated(t)) |-> EvalNodes(Evaluated(t)[i])])
UnboundOp(t) == t.first.t = "sym" /\ t.first.name \notin KnownOps
NonSymOp(t) == t.first.t # "sym"

\* C12: when a Pair node in evaluated position has an operator symbol outside
\* quote, atom, car, cdr, cons, cond, eq, or a non-symbol as operator, compile
\* returns an error and no bytecode; the error is "Symbol is not bound to a
\* function" only for such a symbol and "Non symbol in function-call position"
\* only for a non-symbol, and it is that error when every node has the operands
\* its operator takes and no node has the other fault.
C12_OperatorErrors ==
    (prog <= NSource /\ phase # "source") =>
        LET nodes == EvalNodes(Input(prog).term)
            unbound == \E n \in nodes : UnboundOp(n)
            nonsym == \E n \in nodes : NonSymOp(n)
            shapely == \A n \in nodes : Shapely(n)
        IN  /\ (unbound \/ nonsym) =>
                    (phase = "failed" /\ cerr # "" /\ code = ByteCode_new)
            /\ cerr = "Symbol is not bound to a function" => unbound
            /\ cerr = "Non symbol in function-call position" => nonsym
            /\ (unbound /\ ~nonsym /\ shapely) =>
                    cerr = "Symbol is not bound to a function"
            /\ (nonsym /\ ~unbound /\ shapely) =>
                    cerr = "Non symbol in function-call position"
            /\ phase = "ready" => cerr = ""

\* (car (cons (foo) 1)): the unknown operator two levels down
C12_Witness ==
    /\ Rejected
    /\ cerr = "Symbol is not bound to a function"
    /\ ~UnboundOp(Input(prog).term)
    /\ \E n \in EvalNodes(Input(prog).term) :
            UnboundOp(n) /\ \E m \in EvalNodes(Input(prog).term) : n \in EvalNodes(m) /\ m # n
                                /\ m # Input(prog).term

-----------------------------------------------------------------------------
(* the clause list of cond *)

CondArgs(t) == TItems(t.second)
OddCond(t) == IsCond(t) /\ Len(CondArgs(t)) % 2 = 1
\* every operand of the cond is a Pair list: clauses written (condition expr)
PairedCond(t) ==
    /\ IsCond(t) /\ CondArgs(t) # <<>>
    /\ \A i \in 1..Len(CondArgs(t)) : CondArgs(t)[i].t = "pair"
ClauseMissingExpr(t) ==
    \E i \in 1..Len(CondArgs(t)) : Len(TItems(CondArgs(t)[i])) = 1
UnexpectedEnd == "Unexpected end of cond list"

-----------------------------------------------------------------------------
(* quote *)

\* the input is (quote X) with the one operand X
QuoteForm ==
    /\ prog <= NSource
    /\ Input(prog).term.t = "pair"
    /\ Input(prog).term.first = TSym("quote")
    /\ Len(TItems(Input(prog).term.second)) = 1
QuotedTerm == Input(prog).term.second.first
\* X as the reader laid it out in the heap
QuotedNode == Operand(ast, 1)

\* C14: (quote X) always compiles, to one LOADLIT of the node X and the RETURN
\* of its register, with X the only literal; evaluation returns that very node
\* and allocates nothing (no CONS, whatever X spells), for X an atom, nil, a
\* list that reads as an application, or a form that would not compile.
C14_QuoteIsLiteral ==
    (QuoteForm /\ phase # "source") =>
        /\ phase = "ready"
        /\ code.literals = <<QuotedNode>>
        /\ code.code = <<LoadLit(0, 0), Return(0)>>
        /\ Len(heap) = Len(StartHeap)
        /\ status = "Return" =>
                /\ retval = QuotedNode
                /\ QuotedTerm.t = "pair" =>
                        /\ retval.tag = "pair"
                        /\ Operator(retval) = Sym(QuotedTerm.first.name)
                /\ \A i \in Instrs : ~Ran(i, "CONS")

\* (quote (cons 1 2)) has returned the list whose first element is the symbol cons
C14_Witness ==
    /\ QuoteForm /\ status = "Return"
    /\ QuotedTerm = App("cons", <<TNum(1), TNum(2)>>)
    /\ retval = QuotedNode /\ Operator(retval) = Sym("cons")
    /\ heap[Operand(retval, 1).addr].kind = "num"

-----------------------------------------------------------------------------
(* atom *)

\* the input is (atom X)
AtomForm ==
    /\ prog <= NSource
    /\ Input(prog).term.t = "pair"
    /\ Input(prog).term.first = TSym("atom")
    /\ Len(TItems(Input(prog).term.second)) = 1
AtomOperand == Input(prog).term.second.first

\* C15: ATOM leaves Nil in acc when r1 held Nil or a Pair and the true-symbol
\* when it held anything else; the compiled (atom nil), (atom (quote ())) and
\* (atom (cons x y)) return Nil, atom of a quoted Symbol or of a Number returns
\* the true-symbol.
C15_Atom ==
    /\ phase = "ready" =>
            \A i \in Instrs : Ran(i, "ATOM") =>
                obs[i + 1].out = IF obs[i + 1].r1.tag \in {"nil", "pair"}
                                 THEN NilV ELSE True
    /\ (AtomForm /\ status = "Return") =>
            /\ AtomOperand \in {TSym("nil"), Quote(TNil)} => retval = NilV
            /\ (AtomOperand.t = "pair" /\ AtomOperand.first = TSym("cons")) =>
                    retval = NilV
            /\ IsQuotedSym(AtomOperand) => retval = True
            /\ AtomOperand.t = "num" => retval = True

\* ATOM has run on Nil, on a Symbol and on the Pair a CONS had just made
C15_Witness ==
    /\ phase = "ready"
    /\ \E i \in Instrs :
          Ran(i, "ATOM") /\ obs[i + 1].r1 = NilV /\ obs[i + 1].out = NilV
    /\ \E j \in Instrs :
          Ran(j, "ATOM") /\ obs[j + 1].r1.tag = "sym" /\ obs[j + 1].out = True
    /\ \E k \in Instrs :
          /\ Ran(k, "ATOM") /\ obs[k + 1].r1.tag = "pair" /\ obs[k + 1].out = NilV
          /\ k >= 1 /\ Ran(k - 1, "CONS") /\ obs[k].out = obs[k + 1].r1

-----------------------------------------------------------------------------
(* symbols and literal atoms *)

AtomInput == prog <= NSource /\ Input(prog).term.t \in {"sym", "num"}
\* the operands of CONS that the source spells as a symbol or a number
ConsOfAtoms ==
    /\ prog <= NSource /\ phase = "ready"
    /\ Input(prog).term.t = "pair"
    /\ Input(prog).term.first = TSym("cons")
    /\ \A i \in 1..2 : TItems(Input(prog).term.second)[i].t \in {"sym", "num"}
SelfValue(node) == IF node = Sym("nil") THEN NilV ELSE node

\* C16: a Symbol or literal atom compiles to one LOADLIT; the literal is Nil
\* for the symbol nil and the AST node itself for every other symbol (true
\* included) and for a number, as the whole expression and as an operand; no
\* compiled bytecode holds LOADGLOBAL or STOREGLOBAL, and running it leaves the
\* globals as the caller passed them.
C16_SymbolsAreLiterals ==
    /\ (AtomInput /\ phase # "source") =>
            /\ phase = "ready"
            /\ code.code = <<LoadLit(0, 0), Return(0)>>
            /\ code.literals = <<SelfValue(ast)>>
            /\ status = "Return" => retval = SelfValue(ast)
    /\ ConsOfAtoms =>
            /\ code.literals = <<SelfValue(Operand(ast, 1)), SelfValue(Operand(ast, 2))>>
            /\ status = "Return" =>
                    /\ heap[retval.addr].first = SelfValue(Operand(ast, 1))
                    /\ heap[retval.addr].second = SelfValue(Operand(ast, 2))
    /\ Compiled =>
            /\ \A i \in Instrs : OpAt(i) \notin {"LOADGLOBAL", "STOREGLOBAL"}
            /\ globals = start.globals

\* the symbol nil has been evaluated to Nil with globals that bind a symbol
C16_Witness ==
    /\ AtomInput /\ Input(prog).term = TSym("nil")
    /\ status = "Return" /\ retval = NilV /\ ast = Sym("nil")
    /\ start.globals # EmptyDict /\ globals = start.globals

-----------------------------------------------------------------------------
(* the layout of a compiled cond, computed from the source term *)

RECURSIVE SumOver(_)
SumOver(nums) == IF nums = <<>> THEN 0 ELSE Head(nums) + SumOver(Tail(nums))
\* the number of instructions the compiler pushes for a term it accepts
RECURSIVE Emitted(_)
Emitted(t) ==
    IF t.t # "pair" \/ t.first = TSym("quote") THEN 1
    ELSE LET args == TItems(t.second)
             each == SumOver([i \in 1..Len(args) |-> Emitted(args[i])])
         IN  IF IsCond(t)
             THEN IF args = <<>> THEN 0 ELSE each + Len(args) + 1
             ELSE each + 1

\* the input is a cond, of any nesting, that compiled
TopCond == prog <= NSource /\ IsCond(Input(prog).term) /\ phase = "ready"
Clauses == Len(CondArgs(Input(prog).term)) \div 2
ClauseCondition(k) == CondArgs(Input(prog).term)[2 * k - 1]
ClauseExpr(k) == CondArgs(Input(prog).term)[2 * k]
\* addresses: the first instruction of clause k's condition, its JMPNT, its
\* end JMP; clause Clauses + 1 stands for the default LOADNIL
ConditionAt(k) ==
    SumOver([j \in 1..(k - 1) |-> Emitted(ClauseCondition(j)) + Emitted(ClauseExpr(j)) + 2])
JmpntAt(k) == ConditionAt(k) + Emitted(ClauseCondition(k))
EndJmpAt(k) == JmpntAt(k) + 1 + Emitted(ClauseExpr(k))
DefaultAt == ConditionAt(Clauses + 1)
AfterCond == DefaultAt + 1
\* where the jump at address i lands: the index after the jump plus its offset
Target(i) == i + 1 + code.code[i + 1].offset
\* the source layout names the instructions the compiler pushed
LaidOut ==
    /\ \A k \in 1..Clauses : OpAt(JmpntAt(k)) = "JMPNT" /\ OpAt(EndJmpAt(k)) = "JMP"
    /\ Clauses >= 1 => (OpAt(DefaultAt) = "LOADNIL" /\ OpAt(AfterCond) = "RETURN")

\* C18: in the bytecode of a cond with at least one clause, the JMPNT of the
\* final clause lands on the default LOADNIL.
C18_FinalJmpntToDefault ==
    (TopCond /\ Clauses >= 1) =>
        (LaidOut /\ Target(JmpntAt(Clauses)) = DefaultAt)

\* the final JMPNT of a compiled cond lands on the instruction after LOADNIL
C18_FinalJmpntPastDefault ==
    /\ TopCond /\ Clauses >= 1 /\ LaidOut
    /\ Target(JmpntAt(Clauses)) = AfterCond

\* C19: in the bytecode of a cond, the JMPNT of every clause but the last
\* lands on the first instruction of the next clause's condition, the JMP
\* that ends each clause lands on the instruction after the whole cond (after
\* the default LOADNIL), and the offset of every jump of every compiled
\* program is at least 0.
C19_JumpTargets ==
    /\ TopCond =>
            /\ LaidOut
            /\ \A k \in 1..(Clauses - 1) : Target(JmpntAt(k)) = ConditionAt(k + 1)
            /\ \A k \in 1..Clauses : Target(EndJmpAt(k)) = AfterCond
    /\ Compiled =>
            \A i \in Instrs :
                OpAt(i) \in {"JMP", "JMPT", "JMPNT"} => code.code[i + 1].offset >= 0

\* a compiled cond of two clauses whose first condition and last expr are conds
C19_Witness ==
    /\ TopCond /\ Clauses = 2 /\ LaidOut
    /\ IsCond(ClauseCondition(1)) /\ IsCond(ClauseExpr(2))
    /\ Target(JmpntAt(1)) = ConditionAt(2) /\ ConditionAt(2) > JmpntAt(1) + 2
    /\ Target(EndJmpAt(1)) = AfterCond /\ Target(EndJmpAt(2)) = AfterCond

-----------------------------------------------------------------------------
(* register allocation *)

RECURSIVE HasEmptyCond(_)
HasEmptyCond(term) ==
    /\ term.t = "pair"
    /\ \/ term = App("cond", <<>>)
       \/ HasEmptyCond(term.first)
       \/ HasEmptyCond(term.second)
\* the result register is below the operand registers, and these ascend
Ascending(ins) ==
    CASE ins.op \in {"CONS", "EQ"} -> ins.acc < ins.reg1 /\ ins.reg1 < ins.reg2
      [] ins.op \in {"ATOM", "CAR", "CDR"} -> ins.acc < ins.reg1
      [] OTHER -> TRUE
\* the input is (cons X Y) or (eq X Y), compiled
BinaryForm ==
    /\ prog <= NSource /\ phase = "ready"
    /\ Input(prog).term.t = "pair"
    /\ Input(prog).term.first \in {TSym("cons"), TSym("eq")}
FirstOperand == TItems(Input(prog).term.second)[1]
\* the instruction of the form itself: the last one before RETURN
FormAt == Len(code.code) - 2

\* C20: in every compiled program the result register of an operator is below
\* its operand registers and these ascend left to right (result < reg1 < reg2),
\* whatever form the operands have, a cond with clauses or an empty cond
\* included; and when the CONS or EQ of (op X Y) runs with a literal Y, r2
\* holds the value of Y and the instructions of Y wrote no register of X.
C20_OperandRegisters ==
    /\ Compiled => \A i \in Instrs : Ascending(code.code[i + 1])
    /\ (BinaryForm /\ IsLiteralForm(Operand(ast, 2)) /\ HasRun(FormAt)) =>
            /\ obs[FormAt + 1].r2 = LiteralValue(Operand(ast, 2))
            /\ code.code[FormAt].acc # code.code[FormAt + 1].reg1

\* (cons (cond) (quote b)) has returned a pair whose first is b: the empty cond
\* and the second operand share a register
C20_EmptyCondShares ==
    /\ BinaryForm /\ FirstOperand = App("cond", <<>>)
    /\ Input(prog).term.first = TSym("cons")
    /\ code.code[FormAt + 1].reg1 = code.code[FormAt + 1].reg2
    /\ status = "Return" /\ retval.tag = "pair"
    /\ heap[retval.addr].first = Sym("b") /\ heap[retval.addr].second = Sym("b")

\* the registers ascend in every program with no empty cond
C20_AscendingButEmptyCond ==
    (Compiled /\ ~HasEmptyCond(Input(prog).term)) =>
        \A i \in Instrs : Ascending(code.code[i + 1])

-----------------------------------------------------------------------------
(* Text: construction and as_str *)

InitText ==
    /\ VmIdle /\ Arena_new
    /\ from_str \in Strs
    /\ room \in 0..MaxArraySize
    /\ text = NoText
    /\ made = "none"
    /\ tresult = "none"
    /\ got = Unread

Text_new_empty ==
    /\ made = "none"
    /\ made' = "new_empty"
    /\ text' = new_empty
    /\ tresult' = "Ok"
    /\ UNCHANGED <<vmvars, arenavars, from_str, room, got>>

Text_new_from_str ==
    /\ made = "none"
    /\ made' = "new_from_str"
    /\ LET r == new_from_str(room, from_str)
       IN  /\ text' = r.text
           /\ tresult' = r.result
           /\ room' = r.free
    /\ UNCHANGED <<vmvars, arenavars, from_str, got>>

Text_as_str ==
    /\ tresult = "Ok" /\ ~got.read
    /\ got' = as_str(text)
    /\ UNCHANGED <<vmvars, arenavars, from_str, room, text, made, tresult>>

NextText == Text_new_empty \/ Text_new_from_str \/ Text_as_str
SpecText == InitText /\ [][NextText]_vars

FitsArraySize == str_len(from_str) <= MaxArraySize
FromStr == made = "new_from_str"

-----------------------------------------------------------------------------
(* failing opcodes *)

\* the error the opcode of `ins` fails with on stack s and globals g, "" when
\* it does not fail
Failure(ins, s, g) ==
    CASE ins.op = "CAR" /\ stack_get(s, ins.reg1).tag # "pair" ->
            "Parameter to CAR is not a list"
      [] ins.op = "CDR" /\ stack_get(s, ins.reg1).tag # "pair" ->
            "Parameter to CDR is not a list"
      [] ins.op = "LOADGLOBAL" /\ stack_get(s, ins.reg1).tag # "sym" ->
            "Cannot lookup value for non-symbol type"
      [] ins.op = "LOADGLOBAL" /\ ~dict_has(g, stack_get(s, ins.reg1)) ->
            "Symbol not bound to value"
      [] ins.op = "STOREGLOBAL" /\ stack_get(s, ins.acc).tag # "sym" ->
            "Cannot bind value to non-symbol type"
      [] OTHER -> ""
\* the state in which the last instruction of this step is fetched: the
\* current one for the host's single iteration, the one after all but the
\* last iteration of the quantum for quick_vm_eval
BeforeLast ==
    IF driver = "quick"
    THEN vm_eval_stream(heap, stack, globals, code, ip, obs, executed' - 1)
    ELSE [heap |-> heap, stack |-> stack, globals |-> globals, ip |-> ip,
          status |-> "Pending"]
FailsNext(pre) ==
    /\ pre.status = "Pending"
    /\ has_instr(code, pre.ip)
    /\ Failure(instr_at(code, pre.ip), pre.stack, pre.globals) # ""
C21_Step ==
    /\ (status' = "Err" /\ has_instr(code, BeforeLast.ip)) =>
            /\ err' = Failure(instr_at(code, BeforeLast.ip), BeforeLast.stack,
                              BeforeLast.globals)
            /\ err' # ""
            /\ stack' = BeforeLast.stack
            /\ globals' = BeforeLast.globals
            /\ heap' = BeforeLast.heap
            /\ retval' = retval
            /\ driver = "quick" => qstatus' = "Err"
    /\ ((StreamIter \/ QuickIter) /\ executed' >= 1 /\ FailsNext(BeforeLast)) =>
            status' = "Err"

\* C21: CAR and CDR of a non-Pair, LOADGLOBAL of a non-Symbol or of an unbound
\* Symbol and STOREGLOBAL to a non-Symbol return their evaluation error, and
\* no other opcode returns one; the failing instruction leaves every register,
\* the globals and the heap as they were when it was fetched; vm_eval_stream
\* and quick_vm_eval return that same error and no value.
C21_FailingOpcodes == [][C21_Step]_vars

\* quick_vm_eval has returned the error of a CAR whose operand register holds
\* a symbol, and that register still holds it
C21_Witness ==
    /\ driver = "quick" /\ qstatus = "Err" /\ status = "Err"
    /\ err = "Parameter to CAR is not a list"
    /\ \E i \in Instrs :
            /\ OpAt(i) = "CAR" /\ obs[i + 1].run /\ obs[i + 1].r1.tag = "sym"
            /\ stack_get(stack, code.code[i + 1].reg1) = obs[i + 1].r1

-----------------------------------------------------------------------------
(* the ranges of the Arena's allocations *)

Range(a) == a.ptr..(a.ptr + a.size - 1)
C22_State ==
    /\ bump >= 0 /\ bump <= ArenaSize
    /\ \A i \in DOMAIN allocs : Range(allocs[i]) \subseteq DOMAIN buffer
    /\ \A i, j \in DOMAIN allocs :
            i # j => Range(allocs[i]) \cap Range(allocs[j]) = {}
    /\ \A i \in DOMAIN buffer :
            buffer[i] # 0 <=> \E k \in DOMAIN allocs : i \in Range(allocs[k])
    /\ (last.result # "none" /\ last.before + last.size = ArenaSize) =>
            (last.result = "ptr" /\ bump = ArenaSize)
C22_Step ==
    /\ bump' >= bump
    /\ last'.before = bump
    /\ last'.result = "ptr" =>
            /\ bump' = bump + last'.size
            /\ allocs' = Append(allocs, [ptr |-> bump, size |-> last'.size])
            /\ \A i \in DOMAIN buffer :
                    IF i >= bump /\ i < bump + last'.size
                    THEN buffer[i] = 0 /\ buffer'[i] \in ObjectBytes
                    ELSE buffer'[i] = buffer[i]
    /\ last'.result # "ptr" => UNCHANGED <<bump, buffer, allocs>>

\* C22: after any sequence of allocs 0 <= bump <= size and bump never
\* decreases; a successful alloc of an object of size n writes exactly the
\* bytes [bump_before, bump_before + n), which no earlier alloc wrote, and
\* advances bump by n, so the ranges of the successful allocations are pairwise
\* disjoint and inside the buffer; an alloc that exactly fills the remaining
\* capacity succeeds; alloc changes nothing but bump and the written range.
C22_BumpRanges == [](C22_State) /\ [][C22_Step]_vars

\* three objects fill the arena to its last byte, the last one of another
\* size and content than the first, and the first is still in place
C22_Witness ==
    /\ Len(allocs) >= 3 /\ bump = ArenaSize /\ last.result = "ptr"
    /\ allocs[1].size # allocs[Len(allocs)].size
    /\ buffer[0] = 1 /\ buffer[ArenaSize - 1] = 2

-----------------------------------------------------------------------------
(* the register of LOADNIL *)

LoadNils == { i \in Instrs : OpAt(i) = "LOADNIL" }
\* the registers instruction i sets to Nil when it runs on registers that all
\* hold the true-symbol
NilledBy(i) ==
    LET full == [r \in 1..NumRegs |-> Sym("true")]
        after == eval_next_instr(heap, full, globals, code, i)
    IN  { r \in 0..(NumRegs - 1) : stack_get(after.stack, r) = NilV }
\* the register push_op1 encoded: the one-register form is read back through
\* get_reg_acc, as for RETURN
Supplied(i) == code.code[i + 1].acc

\* C23: the register the compiler supplies with the LOADNIL of a cond is the
\* register the VM sets to Nil when it executes that LOADNIL, and the VM sets
\* no other register.
C23_LoadNilRegister ==
    Compiled => \A i \in LoadNils : NilledBy(i) = {Supplied(i)}

\* (cons (quote p) (cond ...)): the LOADNIL was pushed with the cond's result
\* register, the second operand register of CONS, and the VM would set
\* register 0, the result register of CONS
C23_LoadNilOfOperandCond ==
    /\ OperandCond /\ Input(prog).term.first = TSym("cons")
    /\ \E i \in LoadNils :
            /\ Supplied(i) = code.code[Len(code.code) - 1].reg2
            /\ Supplied(i) = 2
            /\ NilledBy(i) = {0}

\* no LOADNIL the compiler pushed is ever executed
C23_LoadNilNeverRuns ==
    Compiled => \A i \in LoadNils : ~HasRun(i)

-----------------------------------------------------------------------------
(* compiled bytecode runs forward and ends *)

Jumps == { i \in Instrs : OpAt(i) \in {"JMP", "JMPT", "JMPNT"} }
\* the registers an instruction reads and the registers it writes (vm.rs:33-183)
Reads(ins) ==
    CASE ins.op \in {"RETURN", "STOREGLOBAL"} -> {ins.acc} \cup
                        (IF ins.op = "STOREGLOBAL" THEN {ins.reg1} ELSE {})
      [] ins.op \in {"NIL", "ATOM", "CAR", "CDR", "JMPT", "JMPNT", "LOADGLOBAL"} ->
            {ins.reg1}
      [] ins.op \in {"CONS", "EQ"} -> {ins.reg1, ins.reg2}
      [] OTHER -> {}
Writes(ins) ==
    CASE ins.op \in {"LOADLIT", "NIL", "ATOM", "CAR", "CDR", "CONS", "EQ"} -> {ins.acc}
      [] ins.op \in {"LOADNIL", "LOADGLOBAL"} -> {ins.reg1}
      [] OTHER -> {}
\* instruction j ran and wrote register r
Wrote(j, r) == HasRun(j) /\ obs[j + 1].res # "Err" /\ r \in Writes(code.code[j + 1])
ReadsWritten ==
    \A i \in Instrs :
        HasRun(i) => \A r \in Reads(code.code[i + 1]) : \E j \in 0..(i - 1) : Wrote(j, r)
OpcodeErrors ==
    {"Parameter to CAR is not a list", "Parameter to CDR is not a list",
     "Symbol not bound to value", "Cannot lookup value for non-symbol type",
     "Cannot bind value to non-symbol type"}
\* forward jumps inside the bytecode, no HALT, and quick_vm_eval ends within
\* as many steps as there are instructions, with a value or an opcode's error
ForwardAndEnds ==
    /\ \A i \in Jumps : code.code[i + 1].offset >= 0 /\ Target(i) <= Len(code.code) - 1
    /\ \A i \in Instrs : OpAt(i) # "HALT"
    /\ ip <= Len(code.code)
    /\ status \notin {"Halt"}
    /\ err \notin {"Program halted", "No more instructions",
                   "Unexpected end of evaluation"}
    /\ (driver = "quick" /\ status # "None") =>
            /\ executed <= Len(code.code)
            /\ \/ qstatus = "Ok" /\ status = "Return"
               \/ qstatus = "Err" /\ status = "Err" /\ err \in OpcodeErrors

\* C24: in the bytecode of a successful compile every jump goes forward and
\* lands at or before the final RETURN, there is no HALT, and every register
\* an instruction reads was written by an instruction executed before it;
\* quick_vm_eval ends within as many steps as there are instructions with
\* Ok(value) or an opcode's evaluation error, never with "Program halted" and
\* never by a fetch past the last instruction.
C24_CompiledRunsToEnd ==
    Compiled => (ForwardAndEnds /\ ReadsWritten)

\* (cond) has returned the value the caller left in register 0: its RETURN
\* read a register no instruction wrote
C24_ReadsUnwritten ==
    /\ Compiled /\ Input(prog).term = App("cond", <<>>)
    /\ code.code = <<Return(0)>>
    /\ status = "Return" /\ retval = Sym("true") /\ start.stack[1] = Sym("true")

\* all of it but the written registers
C24_ForwardAndEnds == Compiled => ForwardAndEnds

\* the registers read were written, in every program with no empty cond
C24_ReadsWrittenButEmptyCond ==
    (Compiled /\ ~HasEmptyCond(Input(prog).term)) => ReadsWritten

====
